---- MODULE Spec2Model ----
(***************************************************************************)
(* Model of the merchant server's transactional store operations:         *)
(*   - db.reserve_stock            (legacy/merchant-server-python/db.py)  *)
(*   - the agent-run and cart-draft routes (routes/agent_state.py)        *)
(*                                                                         *)
(* The store is SQLite in WAL mode (db.py:95-105), reached through one    *)
(* SQLAlchemy session per request.  The driver opens a transaction at the *)
(* first INSERT/UPDATE/DELETE of a session and keeps the database's write *)
(* lock until COMMIT/ROLLBACK; SELECTs issued before that run on their    *)
(* own and read the last committed state.  `store` is the committed       *)
(* database, `txn` the working copy of the one open write transaction,    *)
(* `writer` the session that holds the write lock.                        *)
(***************************************************************************)
EXTENDS Integers, Sequences, FiniteSets, TLC

\* ------------------------------------------------------------------ bounds
MaxStock == 2
MaxQty == 2
MaxFallback == 2

\* Two requests, each with a session of its own, may be in flight at once.
Sessions == {"s1", "s2"}
Products == {"milk", "eggs"}

\* Python None / SQL NULL, and a present value.
None == <<>>
Some(x) == <<x>>

NoSession == "nobody"

VARIABLES store, txn, writer, pc, req, loc, resp, hist,
          catalog, PRODUCTS_HAS_INVENTORY_COLUMN

vars == <<store, txn, writer, pc, req, loc, resp, hist,
          catalog, PRODUCTS_HAS_INVENTORY_COLUMN>>

\* The products database and the process's cache of its schema probe
\* (db.py:65); the operations on the transactional store leave them alone.
catalog_vars == <<catalog, PRODUCTS_HAS_INVENTORY_COLUMN>>

\* ------------------------------------------------------------- the store
EmptyTable == [k \in {} |-> None]

EmptyDb ==
  [inventory |-> EmptyTable,
   agent_runs |-> EmptyTable,
   agent_run_step_logs |-> EmptyTable,
   cart_drafts |-> EmptyTable,
   cart_draft_line_items |-> EmptyTable,
   cart_draft_alternatives |-> EmptyTable]

\* session.add of a row under a primary key, then flush: the table after the
\* INSERT (the key is known to be free).
Insert(table, id, row) ==
  [k \in DOMAIN table \cup {id} |-> IF k = id THEN row ELSE table[k]]

\* Python's `a or b` on an optional string: None and "" are falsy.
Or(a, b) == IF a = None \/ a = Some("") THEN Some(b) ELSE a

\* str(uuid.uuid4()): an identifier no row and no request holds.  The pools
\* bound the number of generated identifiers alive at once.
RunUuids == {"uuid-run"}

\* What a statement of session s reads and writes: the open transaction of
\* s, else the committed store.
View(s) == IF writer = s THEN txn ELSE store

IdleReq == [op |-> "none"]
IdleLoc == [at |-> "none"]
IdleResp == [status |-> "none"]

\* The answer to a request whose handler raised: the store failed a statement.
StoreFailure == [status |-> 500]

\* ------------------------------------------------- db.reserve_stock
\* WHERE product_id = :p AND quantity >= :q  (NULL >= q is not true)
StmtWhereNoGuard(inv, product_id, quantity) ==
  /\ product_id \in DOMAIN inv
  /\ inv[product_id].quantity # None

StmtWhere(inv, product_id, quantity) ==
  /\ product_id \in DOMAIN inv
  /\ inv[product_id].quantity # None
  /\ inv[product_id].quantity[1] >= quantity

\* UPDATE inventory SET quantity = quantity - :q WHERE ...; the table after
\* the statement.
StmtValuesEveryProduct(inv, product_id, quantity) ==
  [p \in DOMAIN inv |->
     IF inv[p].quantity # None /\ inv[p].quantity[1] >= quantity
     THEN [inv[p] EXCEPT !.quantity = Some(@[1] - quantity)]
     ELSE inv[p]]

StmtValuesOffByOne(inv, product_id, quantity) ==
  IF StmtWhere(inv, product_id, quantity)
  THEN [inv EXCEPT ![product_id].quantity = Some(@[1] - quantity - 1)]
  ELSE inv

StmtValues(inv, product_id, quantity) ==
  IF StmtWhere(inv, product_id, quantity)
  THEN [inv EXCEPT ![product_id].quantity = Some(@[1] - quantity)]
  ELSE inv

StmtRowcountOfTable(inv, product_id, quantity) ==
  IF product_id \in DOMAIN inv THEN 1 ELSE 0

StmtRowcount(inv, product_id, quantity) ==
  IF StmtWhere(inv, product_id, quantity) THEN 1 ELSE 0

\* The history the claims speak of, kept beside the program's state: the
\* calls committed so far on one product, the product of the first call.
\*   product: that product (None before the first call).
\*   series:  "none"; "uniform" while every call on the product had the same
\*            quantity and no fallback_quantity (with the row the first of
\*            them found, the number that returned True and whether one
\*            returned False); "mixed" otherwise.
\*   created: the call (quantity, fallback_quantity) that was the last one
\*            committed on the product, found no row for it and returned True.
NoSeries ==
  [kind |-> "none", start |-> None, quantity |-> 0, trues |-> 0, refused |-> FALSE]
MixedSeries ==
  [kind |-> "mixed", start |-> None, quantity |-> 0, trues |-> 0, refused |-> FALSE]

\*   children: per cart draft, the line items with their alternatives that
\*            the last committed upsert of the draft supplied.
\*   probes:   the number of times the schema of the products table was
\*            probed.
\* And with each request, in loc[s].began: the committed store as the
\* request's first statement found it.
\*   seeding:  "none"; "uniform" while the product had no quantity before
\*            the first call and every call on it had the same quantity q
\*            and the same fallback_quantity f >= q (with the number that
\*            returned True, the number that seeded the record and whether
\*            one returned False); "mixed" otherwise.
NoSeeding ==
  [kind |-> "none", quantity |-> 0, fallback_quantity |-> 0, trues |-> 0,
   seeds |-> 0, refused |-> FALSE]
MixedSeeding ==
  [kind |-> "mixed", quantity |-> 0, fallback_quantity |-> 0, trues |-> 0,
   seeds |-> 0, refused |-> FALSE]

HistInit ==
  [product |-> None, series |-> NoSeries, created |-> None,
   children |-> [k \in {} |-> None], probes |-> 0, seeding |-> NoSeeding]

SeedingCall(x, r, before, result, seeded) ==
  IF \/ x.kind = "mixed"
     \/ r.fallback_quantity = None
     \/ r.fallback_quantity[1] < r.quantity
     \/ (x.kind = "none" /\ before # None /\ before[1].quantity # None)
     \/ (x.kind = "uniform"
         /\ (x.quantity # r.quantity \/ x.fallback_quantity # r.fallback_quantity[1]))
  THEN MixedSeeding
  ELSE [kind |-> "uniform",
        quantity |-> r.quantity,
        fallback_quantity |-> r.fallback_quantity[1],
        trues |-> IF result THEN x.trues + 1 ELSE x.trues,
        seeds |-> IF seeded THEN x.seeds + 1 ELSE x.seeds,
        refused |-> x.refused \/ ~result]

SeriesCall(x, r, before, result) ==
  IF r.fallback_quantity # None \/ x.kind = "mixed"
     \/ (x.kind = "uniform" /\ x.quantity # r.quantity)
  THEN MixedSeries
  ELSE [kind |-> "uniform",
        start |-> IF x.kind = "none" THEN before ELSE x.start,
        quantity |-> r.quantity,
        trues |-> IF result THEN x.trues + 1 ELSE x.trues,
        refused |-> x.refused \/ ~result]

HistCall(h, r, before, result) ==
  IF h.product \notin {None, Some(r.product_id)}
  THEN h
  ELSE [product |-> Some(r.product_id),
        series  |-> SeriesCall(h.series, r, before, result),
        created |-> IF before = None /\ result /\ r.fallback_quantity # None
                    THEN Some([quantity |-> r.quantity,
                               fallback_quantity |-> r.fallback_quantity[1]])
                    ELSE None,
        children |-> h.children,
        probes |-> h.probes,
        seeding |-> h.seeding]

RowOf(inv, p) == IF p \in DOMAIN inv THEN Some(inv[p]) ELSE None

\* A request enters reserve_stock (db.py:564-569) with its arguments.
ReserveStockCall(s, product_id, quantity, fallback_quantity) ==
  /\ pc[s] = "idle"
  /\ pc' = [pc EXCEPT ![s] = "reserve_execute"]
  /\ req' = [req EXCEPT ![s] = [op |-> "reserve_stock",
                                product_id |-> product_id,
                                quantity |-> quantity,
                                fallback_quantity |-> fallback_quantity]]
  /\ loc' = [loc EXCEPT ![s] = [at |-> "reserve", executes |-> 0, seeded |-> FALSE,
                                began |-> None]]
  /\ UNCHANGED <<store, txn, writer, resp, hist>>
  /\ UNCHANGED catalog_vars

\* reserve_stock, lines 571-582: the conditional UPDATE opens the session's
\* write transaction (it waits while another session holds the write lock);
\* rowcount > 0 returns True, no fallback_quantity returns False.
ReserveStockExecute(s) ==
  /\ pc[s] = "reserve_execute"
  /\ writer = NoSession
  /\ LET r == req[s]
         inv == store.inventory
         n == StmtRowcount(inv, r.product_id, r.quantity)
     IN /\ writer' = s
        /\ txn' = [store EXCEPT !.inventory = StmtValues(inv, r.product_id, r.quantity)]
        /\ loc' = [loc EXCEPT ![s].executes = @ + 1, ![s].began = Some(store)]
        /\ IF n > 0
           THEN /\ pc' = [pc EXCEPT ![s] = "returned"]
                /\ resp' = [resp EXCEPT ![s] = [status |-> "return", value |-> TRUE]]
           ELSE IF r.fallback_quantity = None
           THEN /\ pc' = [pc EXCEPT ![s] = "returned"]
                /\ resp' = [resp EXCEPT ![s] = [status |-> "return", value |-> FALSE]]
           ELSE /\ pc' = [pc EXCEPT ![s] = "reserve_get"]
                /\ resp' = resp
  /\ UNCHANGED <<store, req, hist>>
  /\ UNCHANGED catalog_vars

\* lines 584-590: session.get, then an absent row is inserted with
\* fallback_quantity, a NULL quantity is set to it, and the session flushed;
\* a row with a quantity is left as it is.
SeedInventoryAbsentOnly(inv, product_id, fallback_quantity) ==
  IF product_id \notin DOMAIN inv
  THEN [p \in DOMAIN inv \cup {product_id} |->
          IF p = product_id THEN [quantity |-> Some(fallback_quantity)] ELSE inv[p]]
  ELSE inv

SeedInventoryFalsy(inv, product_id, fallback_quantity) ==
  IF product_id \notin DOMAIN inv \/ inv[product_id].quantity \in {None, Some(0)}
  THEN [p \in DOMAIN inv \cup {product_id} |->
          IF p = product_id THEN [quantity |-> Some(fallback_quantity)] ELSE inv[p]]
  ELSE inv

SeedInventoryAlways(inv, product_id, fallback_quantity) ==
  [p \in DOMAIN inv \cup {product_id} |->
     IF p = product_id THEN [quantity |-> Some(fallback_quantity)] ELSE inv[p]]

SeedInventory(inv, product_id, fallback_quantity) ==
  IF product_id \notin DOMAIN inv
  THEN [p \in DOMAIN inv \cup {product_id} |->
          IF p = product_id THEN [quantity |-> Some(fallback_quantity)] ELSE inv[p]]
  ELSE IF inv[product_id].quantity = None
  THEN [inv EXCEPT ![product_id].quantity = Some(fallback_quantity)]
  ELSE inv

ReserveStockSeed(s) ==
  /\ pc[s] = "reserve_get"
  /\ LET r == req[s]
         inv == View(s).inventory
         seeded == SeedInventory(inv, r.product_id, r.fallback_quantity[1])
     IN /\ txn' = [txn EXCEPT !.inventory = seeded]
        /\ loc' = [loc EXCEPT ![s].seeded = (seeded # inv)]
  /\ pc' = [pc EXCEPT ![s] = "reserve_retry"]
  /\ UNCHANGED <<store, writer, req, resp, hist>>
  /\ UNCHANGED catalog_vars

\* lines 586-587 and 589-590 when the store fails the INSERT or UPDATE of
\* the flush: the exception leaves reserve_stock, and the transaction scope
\* of the caller rolls back what the session has written.
ReserveStockSeedFails(s) ==
  /\ pc[s] = "reserve_get"
  /\ LET r == req[s]
         inv == View(s).inventory
     IN SeedInventory(inv, r.product_id, r.fallback_quantity[1]) # inv
  /\ txn' = store
  /\ writer' = NoSession
  /\ resp' = [resp EXCEPT ![s] = StoreFailure]
  /\ pc' = [pc EXCEPT ![s] = "done"]
  /\ UNCHANGED <<store, req, loc, hist>>
  /\ UNCHANGED catalog_vars

\* lines 592-593: the same statement once more; its rowcount is the result.
ReserveStockRetry(s) ==
  /\ pc[s] = "reserve_retry"
  /\ LET r == req[s]
         inv == View(s).inventory
     IN /\ txn' = [txn EXCEPT !.inventory = StmtValues(inv, r.product_id, r.quantity)]
        /\ resp' = [resp EXCEPT ![s] =
                      [status |-> "return",
                       value |-> StmtRowcount(inv, r.product_id, r.quantity) > 0]]
  /\ loc' = [loc EXCEPT ![s].executes = @ + 1]
  /\ pc' = [pc EXCEPT ![s] = "returned"]
  /\ UNCHANGED <<store, writer, req, hist>>
  /\ UNCHANGED catalog_vars

\* The caller's transaction scope: commit once reserve_stock has returned.
ReserveCommit(s) ==
  /\ pc[s] = "returned"
  /\ req[s].op = "reserve_stock"
  /\ writer = s
  /\ store' = txn
  /\ txn' = txn
  /\ writer' = NoSession
  /\ hist' = LET before == RowOf(store.inventory, req[s].product_id)
                 h == HistCall(hist, req[s], before, resp[s].value)
             IN IF hist.product \notin {None, Some(req[s].product_id)}
                THEN h
                ELSE [h EXCEPT !.seeding =
                        SeedingCall(hist.seeding, req[s], before, resp[s].value,
                                    loc[s].seeded)]
  /\ pc' = [pc EXCEPT ![s] = "idle"]
  /\ req' = [req EXCEPT ![s] = IdleReq]
  /\ loc' = [loc EXCEPT ![s] = IdleLoc]
  /\ resp' = [resp EXCEPT ![s] = IdleResp]
  /\ UNCHANGED catalog_vars

\* ----------------------------------------- routes/agent_state.py: agent runs
AgentRunState ==
  {"DISCOVER_MERCHANT", "CHECK_CAPABILITIES", "RESOLVE_INGREDIENTS",
   "BUILD_CART_DRAFT", "QUOTE_CART", "AWAITING_APPROVAL", "CHECKOUT",
   "ORDER_CREATED", "ORDER_TRACKING", "FAILED"}

\* The columns the merge-patch of an agent run assigns (lines 331-350 and
\* 390-409), and all columns of db.AgentRun but the key.
AgentRunPatchFields ==
  {"user_id", "device_id", "recipe_id", "merchant_base_url", "store_id",
   "state", "failure_code", "failure_detail", "cart_draft_id", "order_id"}
AgentRunFields == AgentRunPatchFields \cup {"created_at", "updated_at"}

\* AgentRunPayload with every field absent.
NoAgentRunPayload == [f \in AgentRunFields \cup {"id"} |-> None]

\* The identifiers the stores and the requests in flight hold.
UsedIds(table) ==
  DOMAIN store[table] \cup DOMAIN txn[table]
  \cup UNION {IF "ids" \in DOMAIN loc[s] THEN loc[s].ids ELSE {} : s \in Sessions}

Fresh(pool, table) == pool \ UsedIds(table)

\* lines 331-351 / 390-410: each field present in the payload overwrites
\* the loaded object's, updated_at is payload.updated_at or now_iso.
PatchAgentRunReplace(existing, payload, now_iso) ==
  [f \in AgentRunFields |->
     IF f \in AgentRunPatchFields THEN payload[f]
     ELSE IF f = "updated_at" THEN Or(payload.updated_at, now_iso)
     ELSE existing[f]]

PatchAgentRunStale(existing, payload, now_iso) ==
  [f \in AgentRunFields |->
     IF f \in AgentRunPatchFields
     THEN IF payload[f] # None THEN payload[f] ELSE existing[f]
     ELSE existing[f]]

PatchAgentRunAbsorbing(existing, payload, now_iso) ==
  [f \in AgentRunFields |->
     IF f = "state"
     THEN IF payload[f] # None /\ existing[f] \notin {Some("FAILED"), Some("ORDER_TRACKING")}
          THEN payload[f] ELSE existing[f]
     ELSE IF f \in AgentRunPatchFields
     THEN IF payload[f] # None THEN payload[f] ELSE existing[f]
     ELSE IF f = "updated_at" THEN Or(payload.updated_at, now_iso)
     ELSE existing[f]]

PatchAgentRunResets(existing, payload, now_iso) ==
  [f \in AgentRunFields |->
     IF f = "state"
     THEN IF payload[f] # None THEN payload[f] ELSE Some("DISCOVER_MERCHANT")
     ELSE IF f \in AgentRunPatchFields
     THEN IF payload[f] # None THEN payload[f] ELSE existing[f]
     ELSE IF f = "updated_at" THEN Or(payload.updated_at, now_iso)
     ELSE existing[f]]

PatchAgentRun(existing, payload, now_iso) ==
  [f \in AgentRunFields |->
     IF f \in AgentRunPatchFields
     THEN IF payload[f] # None THEN payload[f] ELSE existing[f]
     ELSE IF f = "updated_at" THEN Or(payload.updated_at, now_iso)
     ELSE existing[f]]

\* lines 356-370: the new db.AgentRun.
NewAgentRunNoDefault(payload, now_iso) ==
  [f \in AgentRunFields |->
     IF f = "created_at" THEN Or(payload.created_at, now_iso)
     ELSE IF f = "updated_at" THEN Or(payload.updated_at, now_iso)
     ELSE payload[f]]

NewAgentRunStampsNow(payload, now_iso) ==
  [f \in AgentRunFields |->
     IF f \in {"created_at", "updated_at"} THEN Some(now_iso)
     ELSE IF f = "state"
     THEN IF payload.state # None THEN payload.state ELSE Some("DISCOVER_MERCHANT")
     ELSE payload[f]]

NewAgentRun(payload, now_iso) ==
  [f \in AgentRunFields |->
     IF f = "created_at" THEN Or(payload.created_at, now_iso)
     ELSE IF f = "updated_at" THEN Or(payload.updated_at, now_iso)
     ELSE IF f = "state"
     THEN IF payload.state # None THEN payload.state ELSE Some("DISCOVER_MERCHANT")
     ELSE payload[f]]

\* The UPDATE a flush emits for a loaded object: the columns whose value was
\* changed since the load, on the row as the database holds it now.
FlushUpdate(row, loaded, object) ==
  [f \in DOMAIN row |-> IF object[f] # loaded[f] THEN object[f] ELSE row[f]]

\* _serialize_agent_run (lines 175-190).
SerializeAgentRun(id, row) == [id |-> id, fields |-> row]

NotFoundAsEmptyRecord == [status |-> 200]
NotFound == [status |-> 404]

\* upsert_agent_run, lines 326-328: the id, the lookup, the time.
UpsertAgentRunGet(s, payload, now_iso) ==
  /\ pc[s] = "idle"
  /\ payload.id \notin {None, Some("")} \/ Fresh(RunUuids, "agent_runs") # {}
  /\ LET agent_run_id == IF payload.id = None \/ payload.id = Some("")
                         THEN CHOOSE u \in Fresh(RunUuids, "agent_runs") : TRUE
                         ELSE payload.id[1]
     IN loc' = [loc EXCEPT ![s] =
                  [at |-> "agent_run",
                   ids |-> {agent_run_id},
                   agent_run_id |-> agent_run_id,
                   existing |-> RowOf(View(s).agent_runs, agent_run_id),
                   now_iso |-> now_iso]]
  /\ req' = [req EXCEPT ![s] = [op |-> "upsert_agent_run", payload |-> payload]]
  /\ pc' = [pc EXCEPT ![s] = "run_commit"]
  /\ UNCHANGED <<store, txn, writer, resp, hist>>
  /\ UNCHANGED catalog_vars

\* update_agent_run, lines 385-389: 404 when the id is unknown.
UpdateAgentRunGet(s, agent_run_id, payload, now_iso) ==
  /\ pc[s] = "idle"
  /\ req' = [req EXCEPT ![s] = [op |-> "update_agent_run",
                                agent_run_id |-> agent_run_id,
                                payload |-> payload]]
  /\ LET existing == RowOf(View(s).agent_runs, agent_run_id)
     IN /\ loc' = [loc EXCEPT ![s] =
                     [at |-> "agent_run",
                      ids |-> {agent_run_id},
                      agent_run_id |-> agent_run_id,
                      existing |-> existing,
                      now_iso |-> now_iso]]
        /\ IF existing = None
           THEN /\ pc' = [pc EXCEPT ![s] = "done"]
                /\ resp' = [resp EXCEPT ![s] = NotFound]
           ELSE /\ pc' = [pc EXCEPT ![s] = "run_commit"]
                /\ resp' = resp
  /\ UNCHANGED <<store, txn, writer, hist>>
  /\ UNCHANGED catalog_vars

\* lines 330-352, 356-372 and 390-411: the merge-patch of the loaded run, or
\* the new run, flushed and committed by session.commit().  The INSERT of a
\* key that another request has committed meanwhile fails and the
\* transaction is rolled back.
AgentRunCommit(s) ==
  /\ pc[s] = "run_commit"
  /\ writer = NoSession
  /\ LET id == loc[s].agent_run_id
         payload == req[s].payload
         runs == store.agent_runs
     IN IF loc[s].existing # None
        THEN /\ store' = [store EXCEPT !.agent_runs[id] =
                            FlushUpdate(runs[id], loc[s].existing[1],
                                        PatchAgentRun(loc[s].existing[1], payload,
                                                      loc[s].now_iso))]
             /\ pc' = [pc EXCEPT ![s] = "run_refresh"]
             /\ resp' = resp
        ELSE IF id \in DOMAIN runs
        THEN /\ store' = store
             /\ pc' = [pc EXCEPT ![s] = "done"]
             /\ resp' = [resp EXCEPT ![s] = StoreFailure]
        ELSE /\ store' = [store EXCEPT !.agent_runs =
                            Insert(runs, id, NewAgentRun(payload, loc[s].now_iso))]
             /\ pc' = [pc EXCEPT ![s] = "run_refresh"]
             /\ resp' = resp
  /\ txn' = store'
  /\ UNCHANGED <<writer, req, loc, hist>>
  /\ UNCHANGED catalog_vars

\* lines 353-354, 373-374 and 412-413: session.refresh, then the response.
AgentRunRefresh(s) ==
  /\ pc[s] = "run_refresh"
  /\ resp' = [resp EXCEPT ![s] =
                [status |-> 200,
                 agentRun |-> SerializeAgentRun(loc[s].agent_run_id,
                                                View(s).agent_runs[loc[s].agent_run_id])]]
  /\ pc' = [pc EXCEPT ![s] = "done"]
  /\ UNCHANGED <<store, txn, writer, req, loc, hist>>
  /\ UNCHANGED catalog_vars

\* get_agent_run, lines 416-426.
GetAgentRun(s, agent_run_id) ==
  /\ pc[s] = "idle"
  /\ req' = [req EXCEPT ![s] = [op |-> "get_agent_run", agent_run_id |-> agent_run_id]]
  /\ LET agent_run == RowOf(View(s).agent_runs, agent_run_id)
     IN /\ loc' = [loc EXCEPT ![s] = [at |-> "agent_run", ids |-> {agent_run_id},
                                      agent_run_id |-> agent_run_id,
                                      existing |-> agent_run]]
        /\ resp' = [resp EXCEPT ![s] =
                      IF agent_run = None THEN NotFound
                      ELSE [status |-> 200,
                            agentRun |-> SerializeAgentRun(agent_run_id, agent_run[1])]]
  /\ pc' = [pc EXCEPT ![s] = "done"]
  /\ UNCHANGED <<store, txn, writer, hist>>
  /\ UNCHANGED catalog_vars

\* The response is sent and the request's session closed.
RequestDone(s) ==
  /\ pc[s] = "done"
  /\ pc' = [pc EXCEPT ![s] = "idle"]
  /\ req' = [req EXCEPT ![s] = IdleReq]
  /\ loc' = [loc EXCEPT ![s] = IdleLoc]
  /\ resp' = [resp EXCEPT ![s] = IdleResp]
  /\ UNCHANGED <<store, txn, writer, hist>>
  /\ UNCHANGED catalog_vars

\* --------------------------------------- routes/agent_state.py: cart drafts
\* The columns the merge-patch of a cart draft assigns (lines 469-486 and
\* 542-559), and all columns of db.CartDraft but the key.
CartDraftPatchFields ==
  {"agent_run_id", "recipe_id", "servings", "pantry_items_removed", "policies",
   "quote_summary", "checkout_session_id", "cart_hash", "quote_hash"}
CartDraftFields == CartDraftPatchFields \cup {"created_at", "updated_at"}

\* What CartDraftLineItemPayload and CartDraftAlternativePayload carry
\* besides the id (and the line's alternatives): the columns of the rows but
\* the key and the parent's key.
LineItemFields ==
  {"ingredient_key", "canonical_ingredient_json", "primary_sku_json",
   "quantity", "unit", "confidence", "chosen_reason",
   "substitution_policy_json", "line_total_cents"}
AlternativeFields ==
  {"rank", "sku_json", "score_breakdown_json", "reason", "confidence"}

\* CartDraftPayload with every field absent.
NoCartDraftPayload == [f \in CartDraftFields \cup {"id"} |-> None]

\* The pools of str(uuid.uuid4()) for carts, line items and alternatives.
CartUuids == {"uuid-cart"}
LineUuids == <<"uuid-line-1", "uuid-line-2", "uuid-line-3">>
AltUuids == <<"uuid-alt-1", "uuid-alt-2", "uuid-alt-3">>

\* The uuids of a pool that no row and no request holds, in the pool's order.
FreshSeq(pool, table) == SelectSeq(pool, LAMBDA u : u \notin UsedIds(table))

Falsy(id) == id = None \/ id = Some("")

\* lines 469-487 / 542-560.
PatchCartDraftReplace(existing, payload, now_iso) ==
  [f \in CartDraftFields |->
     IF f \in CartDraftPatchFields THEN payload[f]
     ELSE IF f = "updated_at" THEN Or(payload.updated_at, now_iso)
     ELSE existing[f]]

PatchCartDraftCreatedAt(existing, payload, now_iso) ==
  [f \in CartDraftFields |->
     IF f \in CartDraftPatchFields \cup {"created_at"}
     THEN IF payload[f] # None THEN payload[f] ELSE existing[f]
     ELSE IF f = "updated_at" THEN Or(payload.updated_at, now_iso)
     ELSE existing[f]]

PatchCartDraft(existing, payload, now_iso) ==
  [f \in CartDraftFields |->
     IF f \in CartDraftPatchFields
     THEN IF payload[f] # None THEN payload[f] ELSE existing[f]
     ELSE IF f = "updated_at" THEN Or(payload.updated_at, now_iso)
     ELSE existing[f]]

\* lines 492-505: the new db.CartDraft.
NewCartDraftStampsNow(payload, now_iso) ==
  [f \in CartDraftFields |->
     IF f \in {"created_at", "updated_at"} THEN Some(now_iso) ELSE payload[f]]

NewCartDraft(payload, now_iso) ==
  [f \in CartDraftFields |->
     IF f = "created_at" THEN Or(payload.created_at, now_iso)
     ELSE IF f = "updated_at" THEN Or(payload.updated_at, now_iso)
     ELSE payload[f]]

\* _replace_cart_line_items, lines 286 and 304: `line.id or str(uuid.uuid4())`
\* for the lines in order, then for the alternatives in order; the k-th id
\* generated is the k-th of `fresh`.
Generated(line_items, i) ==
  Cardinality({j \in 1..i : Falsy(line_items[j].id)})

LineIdsFromKey(line_items, fresh) ==
  [i \in 1..Len(line_items) |->
     IF Falsy(line_items[i].id) THEN line_items[i].ingredient_key
     ELSE line_items[i].id[1]]

LineIds(line_items, fresh) ==
  [i \in 1..Len(line_items) |->
     IF Falsy(line_items[i].id) THEN fresh[Generated(line_items, i)]
     ELSE line_items[i].id[1]]

AltSlots(line_items) ==
  UNION {{<<i, k>> : k \in 1..Len(line_items[i].alternatives)} :
           i \in 1..Len(line_items)}

GeneratedAlts(line_items, i, k) ==
  Cardinality({p \in AltSlots(line_items) :
                 /\ p[1] < i \/ (p[1] = i /\ p[2] <= k)
                 /\ Falsy(line_items[p[1]].alternatives[p[2]].id)})

AltIds(line_items, fresh) ==
  [i \in 1..Len(line_items) |->
     [k \in 1..Len(line_items[i].alternatives) |->
        IF Falsy(line_items[i].alternatives[k].id)
        THEN fresh[GeneratedAlts(line_items, i, k)]
        ELSE line_items[i].alternatives[k].id[1]]]

\* lines 287-299 and 305-315: the records added to the session.
NewLineItem(cart_draft_id, line) ==
  [f \in LineItemFields \cup {"cart_draft_id"} |->
     IF f = "cart_draft_id" THEN cart_draft_id ELSE line[f]]

NewAlternative(line_item_id, alt) ==
  [f \in AlternativeFields \cup {"line_item_id"} |->
     IF f = "line_item_id" THEN line_item_id ELSE alt[f]]

\* db.get_cart_draft_line_items (db.py:660-669) and
\* db.get_cart_draft_alternatives (db.py:672-681): the rows selected, by key.
GetLineItems(db, cart_draft_id) ==
  [l \in {k \in DOMAIN db.cart_draft_line_items :
            db.cart_draft_line_items[k].cart_draft_id = cart_draft_id}
     |-> db.cart_draft_line_items[l]]

GetAlternatives(db, line_item_id) ==
  [a \in {k \in DOMAIN db.cart_draft_alternatives :
            db.cart_draft_alternatives[k].line_item_id = line_item_id}
     |-> db.cart_draft_alternatives[a]]

\* lines 277-282 and db.delete_cart_draft_line_items (db.py:684-692):
\* DELETE FROM cart_draft_alternatives WHERE line_item_id IN existing_ids,
\* DELETE FROM cart_draft_line_items WHERE cart_draft_id = :id.
DeleteAlternativesNone(table, existing_ids) == table

DeleteAlternativesOfOne(table, existing_ids) ==
  IF existing_ids = {} THEN table
  ELSE LET one == CHOOSE l \in existing_ids : TRUE
       IN [a \in {k \in DOMAIN table : table[k].line_item_id # one} |-> table[a]]

DeleteAlternatives(table, existing_ids) ==
  [a \in {k \in DOMAIN table : table[k].line_item_id \notin existing_ids}
     |-> table[a]]

DeleteLineItemsOfAll(table, cart_draft_id) == EmptyTable

DeleteLineItems(table, cart_draft_id) ==
  [l \in {k \in DOMAIN table : table[k].cart_draft_id # cart_draft_id}
     |-> table[l]]

\* The INSERTs of the flush in session.commit(): a key that is in the table
\* or twice among the new rows violates the primary key.
ConflictNever(table, ids) == FALSE

ConflictInTableOnly(table, ids) ==
  \E i \in DOMAIN ids : ids[i] \in DOMAIN table

Conflict(table, ids) ==
  \/ \E i \in DOMAIN ids : ids[i] \in DOMAIN table
  \/ \E i, j \in DOMAIN ids : i # j /\ ids[i] = ids[j]

InsertAll(table, ids, rows) ==
  [k \in DOMAIN table \cup {ids[i] : i \in DOMAIN ids} |->
     IF k \in DOMAIN table THEN table[k]
     ELSE rows[CHOOSE i \in DOMAIN ids : ids[i] = k]]

\* The alternatives of all lines, flattened over their slots.
SlotSeq(line_items) ==
  LET slots == AltSlots(line_items)
      Before(p, q) == p[1] < q[1] \/ (p[1] = q[1] /\ p[2] < q[2])
  IN [n \in 1..Cardinality(slots) |->
        CHOOSE p \in slots : Cardinality({q \in slots : Before(q, p)}) = n - 1]

\* _serialize_cart_draft (lines 208-222), _serialize_cart_line_item (lines
\* 225-253); the lists are kept by key, their order is not modelled.
SerializeCartDraft(id, row) == [id |-> id, fields |-> row]

SerializeCartLineItem(row, alternatives) ==
  [fields |-> row, alternatives |-> alternatives]

\* lines 517-526, 568-577 and 595-604: the response body.
CartResponse(cart_draft_id, cart, line_items, alternatives_map) ==
  [status |-> 200,
   cart |-> SerializeCartDraft(cart_draft_id, cart),
   lineItems |->
     [l \in DOMAIN line_items |->
        SerializeCartLineItem(line_items[l],
                              IF l \in DOMAIN alternatives_map
                              THEN alternatives_map[l] ELSE EmptyTable)]]

\* Beside the program's state: a draft's line items with their alternatives
\* as a database holds them, what an upsert supplies, and the versions of a
\* draft committed while a GET of it is in flight.
Children(db, cart_draft_id) ==
  [l \in DOMAIN GetLineItems(db, cart_draft_id) |->
     [fields |-> db.cart_draft_line_items[l],
      alternatives |-> GetAlternatives(db, l)]]

Supplied(cart_draft_id, line_items, line_ids, alt_ids) ==
  [l \in {line_ids[i] : i \in DOMAIN line_ids} |->
     LET i == CHOOSE j \in DOMAIN line_ids : line_ids[j] = l
     IN [fields |-> [f \in LineItemFields \cup {"cart_draft_id"} |->
                       IF f = "cart_draft_id" THEN cart_draft_id
                       ELSE line_items[i][f]],
         alternatives |->
           [a \in {alt_ids[i][k] : k \in DOMAIN alt_ids[i]} |->
              LET k == CHOOSE m \in DOMAIN alt_ids[i] : alt_ids[i][m] = a
              IN [f \in AlternativeFields \cup {"line_item_id"} |->
                    IF f = "line_item_id" THEN l
                    ELSE line_items[i].alternatives[k][f]]]]]

Snapshot(db, cart_draft_id) ==
  [cart |-> [id |-> cart_draft_id, fields |-> db.cart_drafts[cart_draft_id]],
   lineItems |-> Children(db, cart_draft_id)]

Observe(l, db) ==
  IF "seen" \in DOMAIN l
  THEN [l EXCEPT !.seen = @ \cup {Snapshot(db, l.cart_draft_id)}]
  ELSE l

\* The children a draft had when an upsert began to replace them, kept with
\* the request until it ends.
Previous(l, children) ==
  [f \in DOMAIN l \cup {"previous"} |->
     IF f = "previous" THEN children ELSE l[f]]

\* upsert_cart_draft, lines 463-466: the id, the lookup, the time.  The
\* uuids that _replace_cart_line_items will draw (lines 286 and 304) are
\* drawn here: they depend on nothing that happens in between.
UpsertCartDraftGet(s, payload, now_iso) ==
  /\ pc[s] = "idle"
  /\ ~Falsy(payload.cart.id) \/ Fresh(CartUuids, "cart_drafts") # {}
  /\ LET cart_id == IF Falsy(payload.cart.id)
                    THEN CHOOSE u \in Fresh(CartUuids, "cart_drafts") : TRUE
                    ELSE payload.cart.id[1]
         fresh_lines == FreshSeq(LineUuids, "cart_draft_line_items")
         fresh_alts == FreshSeq(AltUuids, "cart_draft_alternatives")
         line_items == payload.line_items
     IN /\ Generated(line_items, Len(line_items)) <= Len(fresh_lines)
        /\ Cardinality({p \in AltSlots(line_items) :
                          Falsy(line_items[p[1]].alternatives[p[2]].id)})
             <= Len(fresh_alts)
        /\ LET line_ids == LineIds(line_items, fresh_lines)
               alt_ids == AltIds(line_items, fresh_alts)
           IN loc' = [loc EXCEPT ![s] =
                        [at |-> "cart_draft",
                         ids |-> {cart_id}
                                 \cup {line_ids[i] : i \in DOMAIN line_ids}
                                 \cup UNION {{alt_ids[i][k] : k \in DOMAIN alt_ids[i]} :
                                               i \in DOMAIN alt_ids},
                         cart_draft_id |-> cart_id,
                         existing |-> RowOf(View(s).cart_drafts, cart_id),
                         now_iso |-> now_iso,
                         line_ids |-> line_ids,
                         alt_ids |-> alt_ids,
                         began |-> store]]
  /\ req' = [req EXCEPT ![s] = [op |-> "upsert_cart_draft", payload |-> payload]]
  /\ pc' = [pc EXCEPT ![s] = "cart_flush"]
  /\ UNCHANGED <<store, txn, writer, resp, hist>>
  /\ UNCHANGED catalog_vars

\* lines 468-488 with the autoflush before the SELECT of line 274, or lines
\* 490-507 with session.flush(): the UPDATE of the changed columns of the
\* loaded draft (none when nothing changed: no transaction is opened), or
\* the INSERT of the new draft, which fails on a key committed meanwhile.
\* Then line 274-275, the ids of the draft's line items.
UpsertCartDraftFlush(s) ==
  /\ pc[s] = "cart_flush"
  /\ LET id == loc[s].cart_draft_id
         payload == req[s].payload.cart
         existing == loc[s].existing
         object == IF existing = None
                   THEN NewCartDraft(payload, loc[s].now_iso)
                   ELSE PatchCartDraft(existing[1], payload, loc[s].now_iso)
         emits == existing = None \/ object # existing[1]
     IN /\ emits => writer = NoSession
        /\ IF existing = None /\ id \in DOMAIN store.cart_drafts
           THEN /\ txn' = store
                /\ writer' = NoSession
                /\ loc' = loc
                /\ resp' = [resp EXCEPT ![s] = StoreFailure]
                /\ pc' = [pc EXCEPT ![s] = "done"]
           ELSE /\ txn' = IF ~emits THEN txn
                          ELSE IF existing = None
                          THEN [store EXCEPT !.cart_drafts = Insert(@, id, object)]
                          ELSE [store EXCEPT !.cart_drafts[id] =
                                  FlushUpdate(@, existing[1], object)]
                /\ writer' = IF emits THEN s ELSE writer
                /\ loc' = [loc EXCEPT ![s] =
                             [f \in DOMAIN @ \cup {"existing_ids"} |->
                                IF f = "existing_ids"
                                THEN DOMAIN GetLineItems(store, id)
                                ELSE @[f]]]
                /\ resp' = resp
                /\ pc' = [pc EXCEPT ![s] = "cart_replace"]
  /\ UNCHANGED <<store, req, hist>>
  /\ UNCHANGED catalog_vars

\* _replace_cart_line_items from line 276 on, and session.commit() (line 488
\* or 507): the two DELETEs, which open the transaction if the flush did
\* not, the INSERTs of the new line items and alternatives, and the COMMIT;
\* a primary-key violation rolls the transaction back.
ReplaceCartLineItems(s) ==
  /\ pc[s] = "cart_replace"
  /\ writer \in {NoSession, s}
  /\ LET id == loc[s].cart_draft_id
         line_items == req[s].payload.line_items
         line_ids == loc[s].line_ids
         alt_ids == loc[s].alt_ids
         slots == SlotSeq(line_items)
         base == View(s)
         kept_alts == DeleteAlternatives(base.cart_draft_alternatives,
                                         loc[s].existing_ids)
         kept_lines == DeleteLineItems(base.cart_draft_line_items, id)
         new_alt_ids == [n \in DOMAIN slots |-> alt_ids[slots[n][1]][slots[n][2]]]
         new_alts == [n \in DOMAIN slots |->
                        NewAlternative(line_ids[slots[n][1]],
                                       line_items[slots[n][1]].alternatives[slots[n][2]])]
         new_lines == [i \in DOMAIN line_ids |-> NewLineItem(id, line_items[i])]
     IN IF Conflict(kept_lines, line_ids) \/ Conflict(kept_alts, new_alt_ids)
        THEN /\ store' = store
             /\ loc' = loc
             /\ hist' = hist
             /\ resp' = [resp EXCEPT ![s] = StoreFailure]
             /\ pc' = [pc EXCEPT ![s] = "done"]
        ELSE /\ store' = [base EXCEPT
                            !.cart_draft_line_items =
                               InsertAll(kept_lines, line_ids, new_lines),
                            !.cart_draft_alternatives =
                               InsertAll(kept_alts, new_alt_ids, new_alts)]
             /\ loc' = [t \in Sessions |->
                          IF t = s
                          THEN Previous(Observe(loc[t], store'), Children(base, id))
                          ELSE Observe(loc[t], store')]
             /\ hist' = [hist EXCEPT !.children =
                           Insert(@, id, Supplied(id, line_items, line_ids, alt_ids))]
             /\ resp' = resp
             /\ pc' = [pc EXCEPT ![s] = "cart_refresh"]
  /\ txn' = store'
  /\ writer' = NoSession
  /\ UNCHANGED req
  /\ UNCHANGED catalog_vars

\* update_cart_draft, lines 537-539: 404 when the id is unknown.
UpdateCartDraftGet(s, cart_draft_id, payload, now_iso) ==
  /\ pc[s] = "idle"
  /\ req' = [req EXCEPT ![s] = [op |-> "update_cart_draft",
                                cart_draft_id |-> cart_draft_id,
                                payload |-> payload]]
  /\ LET existing == RowOf(View(s).cart_drafts, cart_draft_id)
     IN /\ loc' = [loc EXCEPT ![s] =
                     [at |-> "cart_draft",
                      ids |-> {cart_draft_id},
                      cart_draft_id |-> cart_draft_id,
                      existing |-> existing,
                      now_iso |-> now_iso,
                      began |-> store]]
        /\ IF existing = None
           THEN /\ pc' = [pc EXCEPT ![s] = "done"]
                /\ resp' = [resp EXCEPT ![s] = NotFound]
           ELSE /\ pc' = [pc EXCEPT ![s] = "cart_commit"]
                /\ resp' = resp
  /\ UNCHANGED <<store, txn, writer, hist>>
  /\ UNCHANGED catalog_vars

\* A PATCH that also replaces the draft's line items by none, as an upsert
\* without line items does.
UpdateCartDraftCommitReplacing(s) ==
  /\ pc[s] = "cart_commit"
  /\ writer = NoSession
  /\ LET id == loc[s].cart_draft_id
         existing == loc[s].existing[1]
         patched == [store EXCEPT !.cart_drafts[id] =
                       FlushUpdate(@, existing,
                                   PatchCartDraft(existing, req[s].payload,
                                                  loc[s].now_iso))]
     IN store' = [patched EXCEPT
                    !.cart_draft_alternatives =
                      DeleteAlternatives(@, DOMAIN GetLineItems(patched, id)),
                    !.cart_draft_line_items = DeleteLineItems(@, id)]
  /\ txn' = store'
  /\ loc' = [t \in Sessions |-> Observe(loc[t], store')]
  /\ pc' = [pc EXCEPT ![s] = "cart_refresh"]
  /\ UNCHANGED <<writer, req, resp, hist>>
  /\ UNCHANGED catalog_vars

\* lines 541-561: the merge-patch of the loaded draft, flushed and committed.
UpdateCartDraftCommit(s) ==
  /\ pc[s] = "cart_commit"
  /\ writer = NoSession
  /\ LET id == loc[s].cart_draft_id
         existing == loc[s].existing[1]
     IN store' = [store EXCEPT !.cart_drafts[id] =
                    FlushUpdate(@, existing,
                                PatchCartDraft(existing, req[s].payload,
                                               loc[s].now_iso))]
  /\ txn' = store'
  /\ loc' = [t \in Sessions |-> Observe(loc[t], store')]
  /\ pc' = [pc EXCEPT ![s] = "cart_refresh"]
  /\ UNCHANGED <<writer, req, resp, hist>>
  /\ UNCHANGED catalog_vars

\* lines 489, 508 and 562: session.refresh of the draft.
CartDraftRefresh(s) ==
  /\ pc[s] = "cart_refresh"
  /\ loc' = [loc EXCEPT ![s] =
               [f \in DOMAIN @ \cup {"cart"} |->
                  IF f = "cart" THEN View(s).cart_drafts[loc[s].cart_draft_id]
                  ELSE @[f]]]
  /\ pc' = [pc EXCEPT ![s] = "cart_lines"]
  /\ UNCHANGED <<store, txn, writer, req, resp, hist>>
  /\ UNCHANGED catalog_vars

\* get_cart_draft, lines 587-589: 404 when the id is unknown.
GetCartDraft(s, cart_draft_id) ==
  /\ pc[s] = "idle"
  /\ req' = [req EXCEPT ![s] = [op |-> "get_cart_draft",
                                cart_draft_id |-> cart_draft_id]]
  /\ LET cart == RowOf(View(s).cart_drafts, cart_draft_id)
     IN IF cart = None
        THEN /\ loc' = [loc EXCEPT ![s] =
                          [at |-> "cart_draft", ids |-> {cart_draft_id},
                           cart_draft_id |-> cart_draft_id, existing |-> cart]]
             /\ pc' = [pc EXCEPT ![s] = "done"]
             /\ resp' = [resp EXCEPT ![s] = NotFound]
        ELSE /\ loc' = [loc EXCEPT ![s] =
                          [at |-> "cart_draft", ids |-> {cart_draft_id},
                           cart_draft_id |-> cart_draft_id, existing |-> cart,
                           cart |-> cart[1],
                           seen |-> {Snapshot(store, cart_draft_id)}]]
             /\ pc' = [pc EXCEPT ![s] = "cart_lines"]
             /\ resp' = resp
  /\ UNCHANGED <<store, txn, writer, hist>>
  /\ UNCHANGED catalog_vars

\* lines 511, 564 and 591: the draft's line items; with none, the response.
GetCartDraftLineItems(s) ==
  /\ pc[s] = "cart_lines"
  /\ LET line_items == GetLineItems(View(s), loc[s].cart_draft_id)
     IN /\ loc' = [loc EXCEPT ![s] =
                     [f \in DOMAIN @ \cup {"line_items", "alternatives_map"} |->
                        IF f = "line_items" THEN line_items
                        ELSE IF f = "alternatives_map" THEN EmptyTable
                        ELSE IF f = "ids" THEN @[f] \cup DOMAIN line_items
                        ELSE @[f]]]
        /\ IF line_items = EmptyTable
           THEN /\ resp' = [resp EXCEPT ![s] =
                              CartResponse(loc[s].cart_draft_id, loc[s].cart,
                                           line_items, EmptyTable)]
                /\ pc' = [pc EXCEPT ![s] = "done"]
           ELSE /\ resp' = resp
                /\ pc' = [pc EXCEPT ![s] = "cart_alternatives"]
  /\ UNCHANGED <<store, txn, writer, req, hist>>
  /\ UNCHANGED catalog_vars

\* lines 513-516, 565-568 and 592-595: one SELECT of alternatives per line
\* item, in the order the line items came in; after the last, the response.
GetCartDraftAlternatives(s) ==
  /\ pc[s] = "cart_alternatives"
  /\ \E line \in DOMAIN loc[s].line_items \ DOMAIN loc[s].alternatives_map :
       LET alternatives_map == Insert(loc[s].alternatives_map, line,
                                      GetAlternatives(View(s), line))
       IN /\ loc' = [loc EXCEPT ![s].alternatives_map = alternatives_map]
          /\ IF DOMAIN alternatives_map = DOMAIN loc[s].line_items
             THEN /\ resp' = [resp EXCEPT ![s] =
                                CartResponse(loc[s].cart_draft_id, loc[s].cart,
                                             loc[s].line_items, alternatives_map)]
                  /\ pc' = [pc EXCEPT ![s] = "done"]
             ELSE /\ resp' = resp
                  /\ pc' = [pc EXCEPT ![s] = "cart_alternatives"]
  /\ UNCHANGED <<store, txn, writer, req, hist>>
  /\ UNCHANGED catalog_vars

\* ------------------------------- routes/agent_state.py: agent run step logs
\* All columns of db.AgentRunStepLog (db.py:285-299) but the key.
StepLogFields ==
  {"agent_run_id", "step_name", "request_id", "idempotency_key", "started_at",
   "finished_at", "duration_ms", "success", "error_summary"}

StepUuids == {"uuid-step1", "uuid-step2"}

\* create_agent_run_step, lines 437-449: the record, started_at defaulting
\* to the current time.
NewStepLog(payload, now_iso) ==
  [f \in StepLogFields |->
     IF f = "started_at" THEN Or(payload.started_at, now_iso) ELSE payload[f]]

\* _serialize_step_log (lines 193-206).
SerializeStepLog(id, row) == [id |-> id, fields |-> row]

\* create_agent_run_step, lines 436-450: the id, the record, session.add.
\* The agent run of payload.agent_run_id is not looked up.
CreateAgentRunStep(s, payload, now_iso) ==
  /\ pc[s] = "idle"
  /\ ~Falsy(payload.id) \/ Fresh(StepUuids, "agent_run_step_logs") # {}
  /\ LET step_id == IF Falsy(payload.id)
                    THEN CHOOSE u \in Fresh(StepUuids, "agent_run_step_logs") : TRUE
                    ELSE payload.id[1]
     IN loc' = [loc EXCEPT ![s] =
                  [at |-> "step_log",
                   ids |-> {step_id},
                   step_id |-> step_id,
                   step_log |-> NewStepLog(payload, now_iso)]]
  /\ req' = [req EXCEPT ![s] = [op |-> "create_agent_run_step", payload |-> payload]]
  /\ pc' = [pc EXCEPT ![s] = "step_commit"]
  /\ UNCHANGED <<store, txn, writer, resp, hist>>
  /\ UNCHANGED catalog_vars

\* line 451: session.commit() flushes the INSERT and commits; a key that is
\* in the table fails the INSERT and the transaction is rolled back.  The
\* foreign key of agent_run_id is not enforced: the connection never sets
\* PRAGMA foreign_keys (db.py:95-105).
AgentRunStepCommit(s) ==
  /\ pc[s] = "step_commit"
  /\ writer = NoSession
  /\ LET id == loc[s].step_id
         steps == store.agent_run_step_logs
     IN IF Conflict(steps, <<id>>)
        THEN /\ store' = store
             /\ pc' = [pc EXCEPT ![s] = "done"]
             /\ resp' = [resp EXCEPT ![s] = StoreFailure]
        ELSE /\ store' = [store EXCEPT !.agent_run_step_logs =
                            Insert(steps, id, loc[s].step_log)]
             /\ pc' = [pc EXCEPT ![s] = "step_refresh"]
             /\ resp' = resp
  /\ txn' = store'
  /\ UNCHANGED <<writer, req, loc, hist>>
  /\ UNCHANGED catalog_vars

\* lines 452-453: session.refresh, then the response.
AgentRunStepRefresh(s) ==
  /\ pc[s] = "step_refresh"
  /\ resp' = [resp EXCEPT ![s] =
                [status |-> 200,
                 stepLog |-> SerializeStepLog(loc[s].step_id,
                                              View(s).agent_run_step_logs[loc[s].step_id])]]
  /\ pc' = [pc EXCEPT ![s] = "done"]
  /\ UNCHANGED <<store, txn, writer, req, loc, hist>>
  /\ UNCHANGED catalog_vars

\* ------------------------------------------- routes/products.py: catalog
\* The products table: its columns and its rows by id.  A database made
\* before inventory_quantity existed lacks the column (db.py:131-132);
\* import_grocery.py makes the table with it.
ProductColumns == {"id", "title", "price", "image_url"}

CatalogRow(columns, id, inventory) ==
  [c \in columns \ {"id"} |->
     IF c = "title" THEN id
     ELSE IF c = "price" THEN 1
     ELSE IF c = "image_url" THEN None
     ELSE inventory]

Catalog(columns, ids, inventory) ==
  [columns |-> columns,
   products |-> [id \in ids |-> CatalogRow(columns, id, inventory)]]

\* import_grocery.py, lines 83-118: DROP TABLE, CREATE TABLE with
\* inventory_quantity, INSERT of the grocery items, COMMIT.
GroceryCatalog ==
  Catalog(ProductColumns \cup {"inventory_quantity"}, Products, Some(MaxStock))

ImportGrocery ==
  /\ catalog' = GroceryCatalog
  /\ UNCHANGED <<store, txn, writer, pc, req, loc, resp, hist,
                 PRODUCTS_HAS_INVENTORY_COLUMN>>

\* db._products_have_inventory_column, lines 452-456: PRAGMA
\* table_info(products), the flag computed from it and cached.
Probe(columns) == "inventory_quantity" \in columns

\* list_products, line 33: db.list_products (db.py:436-439) selects the
\* products; inventory_quantity is deferred and not selected.
ListProducts(s) ==
  /\ pc[s] = "idle"
  /\ req' = [req EXCEPT ![s] = [op |-> "list_products"]]
  /\ loc' = [loc EXCEPT ![s] =
               [at |-> "products",
                products |-> [id \in DOMAIN catalog.products |->
                                [c \in ProductColumns \ {"id"} |->
                                   catalog.products[id][c]]]]]
  /\ pc' = [pc EXCEPT ![s] = "products_flag"]
  /\ UNCHANGED <<store, txn, writer, resp, hist, catalog_vars>>

\* line 34 and db.py:449-453: the cached flag when there is one, else the
\* PRAGMA is sent and the request waits for its rows.
ProductsFlag(s) ==
  /\ pc[s] = "products_flag"
  /\ IF PRODUCTS_HAS_INVENTORY_COLUMN # None
     THEN /\ loc' = [loc EXCEPT ![s] =
                       [f \in DOMAIN @ \cup {"has_inventory"} |->
                          IF f = "has_inventory"
                          THEN PRODUCTS_HAS_INVENTORY_COLUMN[1] ELSE @[f]]]
          /\ pc' = [pc EXCEPT ![s] = "products_items"]
     ELSE /\ loc' = loc
          /\ pc' = [pc EXCEPT ![s] = "products_probe"]
  /\ UNCHANGED <<store, txn, writer, req, resp, hist, catalog_vars>>

\* db.py:453-456: the rows of the PRAGMA arrive, the flag is assigned and
\* returned.
ProductsProbe(s) ==
  /\ pc[s] = "products_probe"
  /\ PRODUCTS_HAS_INVENTORY_COLUMN' = Some(Probe(catalog.columns))
  /\ loc' = [loc EXCEPT ![s] =
               [f \in DOMAIN @ \cup {"has_inventory"} |->
                  IF f = "has_inventory" THEN Probe(catalog.columns) ELSE @[f]]]
  /\ hist' = [hist EXCEPT !.probes = @ + 1]
  /\ pc' = [pc EXCEPT ![s] = "products_items"]
  /\ UNCHANGED <<store, txn, writer, req, resp, catalog>>

\* db.get_product_inventory_quantity (db.py:459-469): None when the cached
\* flag is false or no row has the id, else the row's inventory_quantity.
GetProductInventoryQuantity(id) ==
  IF PRODUCTS_HAS_INVENTORY_COLUMN # Some(TRUE) THEN None
  ELSE IF id \notin DOMAIN catalog.products THEN None
  ELSE IF "inventory_quantity" \notin catalog.columns THEN None
  ELSE catalog.products[id].inventory_quantity

\* lines 36-50: one item per product selected, with inventory_quantity
\* when has_inventory; the response.  The products are read-only for the
\* server, the loop is taken as one step.
ProductItem(id, product, has_inventory) ==
  [f \in ProductColumns \cup (IF has_inventory THEN {"inventory_quantity"} ELSE {}) |->
     IF f = "id" THEN id
     ELSE IF f = "inventory_quantity" THEN GetProductInventoryQuantity(id)
     ELSE product[f]]

ProductsItems(s) ==
  /\ pc[s] = "products_items"
  /\ resp' = [resp EXCEPT ![s] =
                [status |-> 200,
                 products |-> [id \in DOMAIN loc[s].products |->
                                 ProductItem(id, loc[s].products[id],
                                             loc[s].has_inventory)]]]
  /\ pc' = [pc EXCEPT ![s] = "done"]
  /\ UNCHANGED <<store, txn, writer, req, loc, hist, catalog_vars>>

Quantities == 1..MaxQty
Fallbacks == {None} \cup {Some(f) : f \in 0..MaxFallback}
InventoryRows == {[quantity |-> None]} \cup {[quantity |-> Some(n)] : n \in 0..MaxStock}
Inventories ==
  UNION {[D -> InventoryRows] : D \in SUBSET Products}

InitSessions ==
  /\ writer = NoSession
  /\ pc = [s \in Sessions |-> "idle"]
  /\ req = [s \in Sessions |-> IdleReq]
  /\ loc = [s \in Sessions |-> IdleLoc]
  /\ resp = [s \in Sessions |-> IdleResp]

InitCatalog ==
  /\ catalog = GroceryCatalog
  /\ PRODUCTS_HAS_INVENTORY_COLUMN = None

InitReserve ==
  /\ \E inv \in Inventories :
       /\ store = [EmptyDb EXCEPT !.inventory = inv]
       /\ txn = store
       /\ hist = HistInit
  /\ InitSessions
  /\ InitCatalog

NextReserve ==
  \E s \in Sessions :
    \/ \E p \in Products, q \in Quantities, f \in Fallbacks :
         ReserveStockCall(s, p, q, f)
    \/ ReserveStockExecute(s)
    \/ ReserveStockSeed(s)
    \/ ReserveStockRetry(s)
    \/ ReserveCommit(s)

SpecReserve == InitReserve /\ [][NextReserve]_vars

\* ------------------------------------------------- requests on agent runs
Times == {"t1", "t2"}
RunIds == {"run1"}

RunPayload(id, recipe_id, state, created_at, updated_at) ==
  [NoAgentRunPayload EXCEPT !.id = id, !.recipe_id = recipe_id, !.state = state,
                            !.created_at = created_at, !.updated_at = updated_at]

RunPayloads ==
  {RunPayload(id, r, st, None, u) :
     id \in {None} \cup {Some(i) : i \in RunIds},
     r \in {None, Some("r1"), Some("r2")},
     st \in {None, Some("FAILED")},
     u \in {None, Some("t0")}}

InitRoutes ==
  /\ store = EmptyDb
  /\ txn = store
  /\ hist = HistInit
  /\ InitSessions
  /\ InitCatalog

\* One request at a time.
NextRun ==
  \E s \in {"s1"} :
    \/ \E payload \in RunPayloads, now_iso \in Times :
         UpsertAgentRunGet(s, payload, now_iso)
    \/ \E id \in RunIds \cup RunUuids, payload \in RunPayloads, now_iso \in Times :
         UpdateAgentRunGet(s, id, payload, now_iso)
    \/ AgentRunCommit(s)
    \/ AgentRunRefresh(s)
    \/ \E id \in RunIds \cup RunUuids : GetAgentRun(s, id)
    \/ RequestDone(s)

SpecRun == InitRoutes /\ [][NextRun]_vars

\* Requests that set the state of one agent run, every enumerated state
\* after every other; one request at a time.
StatePayloads ==
  {RunPayload(None, None, st, None, None) :
     st \in {None} \cup {Some(x) : x \in AgentRunState}}

NextStates ==
  \E s \in {"s1"} :
    \/ \E payload \in StatePayloads, id \in RunIds :
         UpsertAgentRunGet(s, [payload EXCEPT !.id = Some(id)], "t1")
    \/ \E payload \in StatePayloads, id \in RunIds \cup RunUuids :
         UpdateAgentRunGet(s, id, payload, "t2")
    \/ AgentRunCommit(s)
    \/ AgentRunRefresh(s)
    \/ RequestDone(s)

SpecStates == InitRoutes /\ [][NextStates]_vars

\* Requests that create agent runs, with and without id, state and
\* timestamps, and requests that patch them; one request at a time.
CreatePayloads ==
  {RunPayload(id, None, st, c, u) :
     id \in {None, Some("")} \cup {Some(i) : i \in RunIds},
     st \in {None, Some("CHECKOUT")},
     c \in {None, Some("t0")},
     u \in {None, Some("t0")}}

NextCreate ==
  \E s \in {"s1"} :
    \/ \E payload \in CreatePayloads, now_iso \in Times :
         UpsertAgentRunGet(s, payload, now_iso)
    \/ \E id \in RunIds \cup RunUuids, now_iso \in Times :
         UpdateAgentRunGet(s, id, RunPayload(None, Some("r1"), None, Some("t0"), None),
                           now_iso)
    \/ AgentRunCommit(s)
    \/ AgentRunRefresh(s)
    \/ RequestDone(s)

SpecCreate == InitRoutes /\ [][NextCreate]_vars

\* ------------------------------------------------ requests on cart drafts
CartIds == {"cart1"}

CartPayload(id, recipe_id, updated_at) ==
  [NoCartDraftPayload EXCEPT !.id = id, !.recipe_id = recipe_id,
                             !.updated_at = updated_at]

AltPayload(id, rank) ==
  [id |-> id, rank |-> rank, sku_json |-> None, score_breakdown_json |-> None,
   reason |-> None, confidence |-> None]

LinePayload(id, ingredient_key, alternatives) ==
  [id |-> id, ingredient_key |-> ingredient_key,
   canonical_ingredient_json |-> None, primary_sku_json |-> None,
   quantity |-> 1, unit |-> None, confidence |-> None, chosen_reason |-> None,
   substitution_policy_json |-> None, line_total_cents |-> None,
   alternatives |-> alternatives]

Lists(S) == {<<>>} \cup {<<a>> : a \in S} \cup {<<a, b>> : a, b \in S}

\* One request at a time: upserts of up to two line items, with ids
\* supplied, supplied again or generated, and PATCH and GET between them.
SeqLineItems ==
  {LinePayload(None, "flour", <<AltPayload(None, 1)>>),
   LinePayload(Some("l1"), "flour", <<AltPayload(Some("a1"), 1)>>),
   LinePayload(Some("l1"), "sugar", <<>>),
   LinePayload(Some("l2"), "flour", <<AltPayload(Some("a1"), 1)>>)}
SeqUpserts ==
  {[cart |-> CartPayload(id, None, None), line_items |-> lines] :
     id \in {None} \cup {Some(c) : c \in CartIds},
     lines \in Lists(SeqLineItems)}

NextCartSeq ==
  \E s \in {"s1"} :
    \/ \E payload \in SeqUpserts : UpsertCartDraftGet(s, payload, "t1")
    \/ UpsertCartDraftFlush(s)
    \/ ReplaceCartLineItems(s)
    \/ \E id \in CartIds \cup CartUuids :
         UpdateCartDraftGet(s, id, CartPayload(None, Some("r2"), None), "t1")
    \/ UpdateCartDraftCommit(s)
    \/ CartDraftRefresh(s)
    \/ \E id \in CartIds \cup CartUuids : GetCartDraft(s, id)
    \/ GetCartDraftLineItems(s)
    \/ GetCartDraftAlternatives(s)
    \/ RequestDone(s)

SpecCartSeq == InitRoutes /\ [][NextCartSeq]_vars

\* Upserts that create drafts and upserts that patch the parent of an
\* existing one, with and without id, recipeId and timestamps; one request at
\* a time.
ParentUpserts ==
  {[cart |-> [CartPayload(id, r, u) EXCEPT !.created_at = c], line_items |-> lines] :
     id \in {None} \cup {Some(x) : x \in CartIds},
     r \in {None, Some("r1"), Some("r2")},
     c \in {None, Some("t0")},
     u \in {None, Some("t0")},
     lines \in {<<>>, <<LinePayload(None, "flour", <<>>)>>}}

NextCartParent ==
  \E s \in {"s1"} :
    \/ \E payload \in ParentUpserts : UpsertCartDraftGet(s, payload, "t1")
    \/ UpsertCartDraftFlush(s)
    \/ ReplaceCartLineItems(s)
    \/ CartDraftRefresh(s)
    \/ GetCartDraftLineItems(s)
    \/ GetCartDraftAlternatives(s)
    \/ RequestDone(s)

SpecCartParent == InitRoutes /\ [][NextCartParent]_vars

\* Writes that the store can fail, one request at a time: upserts whose
\* line items or alternatives repeat a primary key or take one of another
\* draft, and reserve_stock calls whose seeding flush may fail.  A request
\* starts when the other session has none in progress.
FailLineItems ==
  {<<LinePayload(Some("l1"), "flour", <<AltPayload(Some("a1"), 1)>>)>>,
   <<LinePayload(Some("l1"), "flour", <<AltPayload(Some("a1"), 1)>>),
     LinePayload(Some("l1"), "sugar", <<>>)>>,
   <<LinePayload(Some("l1"), "flour", <<AltPayload(Some("a1"), 1)>>),
     LinePayload(Some("l2"), "flour", <<AltPayload(Some("a1"), 1)>>)>>}
FailUpserts ==
  {[cart |-> CartPayload(id, Some(r), None), line_items |-> lines] :
     id \in {None} \cup {Some(c) : c \in CartIds},
     r \in {"r1", "r2"}, lines \in FailLineItems}

Quiet(s) == pc[s] = "idle" \/ (pc[s] = "done" /\ resp[s] = StoreFailure)

InitFailure ==
  /\ \E inv \in {i \in Inventories : DOMAIN i \subseteq {"milk"}} :
       /\ store = [EmptyDb EXCEPT !.inventory = inv]
       /\ txn = store
       /\ hist = HistInit
  /\ InitSessions
  /\ InitCatalog

NextFailure ==
  \/ \E payload \in FailUpserts :
       Quiet("s2") /\ UpsertCartDraftGet("s1", payload, "t1")
  \/ UpsertCartDraftFlush("s1")
  \/ ReplaceCartLineItems("s1")
  \/ CartDraftRefresh("s1")
  \/ GetCartDraftLineItems("s1")
  \/ GetCartDraftAlternatives("s1")
  \/ \E q \in Quantities, f \in Fallbacks :
       Quiet("s1") /\ ReserveStockCall("s2", "milk", q, f)
  \/ ReserveStockExecute("s2")
  \/ ReserveStockSeed("s2")
  \/ ReserveStockSeedFails("s2")
  \/ ReserveStockRetry("s2")
  \/ ReserveCommit("s2")
  \/ \E s \in Sessions : RequestDone(s)

SpecFailure == InitFailure /\ [][NextFailure]_vars

\* Step logs written among the other operations of the service, one request
\* at a time: steps with and without id and startedAt, of a run that is
\* stored at some time and of a run that never is.
StepPayload(id, agent_run_id, started_at) ==
  [id |-> id, agent_run_id |-> agent_run_id, step_name |-> "quote",
   request_id |-> None, idempotency_key |-> None, started_at |-> started_at,
   finished_at |-> None, duration_ms |-> None, success |-> FALSE,
   error_summary |-> None]
StepPayloads ==
  {StepPayload(id, r, t) :
     id \in {None, Some("step1")}, r \in {"run1", "run9"}, t \in {None, Some("t0")}}

NextSteps ==
  \E s \in {"s1"} :
    \/ \E payload \in StepPayloads : CreateAgentRunStep(s, payload, "t1")
    \/ AgentRunStepCommit(s)
    \/ AgentRunStepRefresh(s)
    \/ UpsertAgentRunGet(s, RunPayload(Some("run1"), None, None, None, None), "t1")
    \/ UpdateAgentRunGet(s, "run1",
                         RunPayload(None, Some("r1"), Some("FAILED"), None, None), "t2")
    \/ AgentRunCommit(s)
    \/ AgentRunRefresh(s)
    \/ GetAgentRun(s, "run1")
    \/ UpsertCartDraftGet(s,
         [cart |-> CartPayload(Some("cart1"), None, None),
          line_items |-> <<LinePayload(Some("l1"), "flour",
                                       <<AltPayload(Some("a1"), 1)>>)>>], "t1")
    \/ UpsertCartDraftFlush(s)
    \/ ReplaceCartLineItems(s)
    \/ UpdateCartDraftGet(s, "cart1", CartPayload(None, Some("r2"), None), "t2")
    \/ UpdateCartDraftCommit(s)
    \/ CartDraftRefresh(s)
    \/ GetCartDraft(s, "cart1")
    \/ GetCartDraftLineItems(s)
    \/ GetCartDraftAlternatives(s)
    \/ ReserveStockCall(s, "milk", 1, Some(MaxFallback))
    \/ ReserveStockExecute(s)
    \/ ReserveStockSeed(s)
    \/ ReserveStockSeedFails(s)
    \/ ReserveStockRetry(s)
    \/ ReserveCommit(s)
    \/ RequestDone(s)

SpecSteps == InitRoutes /\ [][NextSteps]_vars

\* GET /products from a process that has not probed yet, on a catalog with
\* or without the inventory_quantity column, requests in flight together,
\* and the import script run at any time.
Catalogs ==
  {Catalog(columns, ids, inventory) :
     columns \in {ProductColumns, ProductColumns \cup {"inventory_quantity"}},
     ids \in SUBSET Products,
     inventory \in {None, Some(0), Some(MaxStock)}}

InitProducts ==
  /\ store = EmptyDb
  /\ txn = store
  /\ hist = HistInit
  /\ InitSessions
  /\ catalog \in Catalogs
  /\ PRODUCTS_HAS_INVENTORY_COLUMN = None

NextProducts ==
  \/ ImportGrocery
  \/ \E s \in Sessions :
       \/ ListProducts(s)
       \/ ProductsFlag(s)
       \/ ProductsProbe(s)
       \/ ProductsItems(s)
       \/ RequestDone(s)

SpecProducts == InitProducts /\ [][NextProducts]_vars

\* Two requests that upsert the same draft, in flight together, with
\* different line items; updatedAt is supplied, the same as stored or
\* another, so that no request depends on the clock.
RaceUpserts ==
  {[cart |-> CartPayload(Some(id), None, u), line_items |-> lines] :
     id \in CartIds, u \in {Some("t0"), Some("t2")},
     lines \in {<<LinePayload(Some("l1"), "flour", <<AltPayload(Some("a1"), 1)>>)>>,
                <<LinePayload(Some("l2"), "sugar", <<AltPayload(Some("a2"), 1)>>)>>}}

NextRace ==
  \E s \in Sessions :
    \/ \E payload \in RaceUpserts : UpsertCartDraftGet(s, payload, "t1")
    \/ UpsertCartDraftFlush(s)
    \/ ReplaceCartLineItems(s)
    \/ CartDraftRefresh(s)
    \/ GetCartDraftLineItems(s)
    \/ GetCartDraftAlternatives(s)
    \/ RequestDone(s)

SpecRace == InitRoutes /\ [][NextRace]_vars

\* A request that writes a draft and a request that reads it, in flight
\* together.
ConcLineItems ==
  {<<>>,
   <<LinePayload(Some("l1"), "flour", <<AltPayload(Some("a1"), 1)>>)>>,
   <<LinePayload(Some("l2"), "sugar", <<>>)>>}
ConcUpserts ==
  {[cart |-> CartPayload(Some(id), r, None), line_items |-> lines] :
     id \in CartIds, r \in {Some("r1"), Some("r2")}, lines \in ConcLineItems}

NextCart ==
  \/ \E payload \in ConcUpserts : UpsertCartDraftGet("s1", payload, "t1")
  \/ UpsertCartDraftFlush("s1")
  \/ ReplaceCartLineItems("s1")
  \/ CartDraftRefresh("s1")
  \/ \E id \in CartIds : GetCartDraft("s2", id)
  \/ \E s \in Sessions :
       \/ GetCartDraftLineItems(s)
       \/ GetCartDraftAlternatives(s)
       \/ RequestDone(s)

SpecCart == InitRoutes /\ [][NextCart]_vars

\* Lookups by id, of agent runs and of cart drafts, known and unknown,
\* between the requests that create them; one request at a time.
LookupRuns == {RunPayload(id, None, None, None, None) :
                 id \in {None} \cup {Some(i) : i \in RunIds}}
LookupUpserts ==
  {[cart |-> CartPayload(id, None, None), line_items |-> lines] :
     id \in {None} \cup {Some(c) : c \in CartIds},
     lines \in {<<>>, <<LinePayload(None, "flour", <<AltPayload(None, 1)>>)>>}}

NextLookup ==
  \E s \in {"s1"} :
    \/ \E payload \in LookupRuns : UpsertAgentRunGet(s, payload, "t1")
    \/ \E id \in RunIds \cup RunUuids :
         UpdateAgentRunGet(s, id, RunPayload(None, None, Some("FAILED"), None, None), "t2")
    \/ AgentRunCommit(s)
    \/ AgentRunRefresh(s)
    \/ \E id \in RunIds \cup RunUuids : GetAgentRun(s, id)
    \/ \E payload \in LookupUpserts : UpsertCartDraftGet(s, payload, "t1")
    \/ UpsertCartDraftFlush(s)
    \/ ReplaceCartLineItems(s)
    \/ \E id \in CartIds \cup CartUuids :
         UpdateCartDraftGet(s, id, CartPayload(None, Some("r2"), None), "t2")
    \/ UpdateCartDraftCommit(s)
    \/ CartDraftRefresh(s)
    \/ \E id \in CartIds \cup CartUuids : GetCartDraft(s, id)
    \/ GetCartDraftLineItems(s)
    \/ GetCartDraftAlternatives(s)
    \/ RequestDone(s)

SpecLookup == InitRoutes /\ [][NextLookup]_vars

\* POST and PATCH on one agent run and one cart draft, with and without
\* createdAt, at two times; one request at a time.
StampedRuns ==
  {RunPayload(Some(id), None, None, c, None) :
     id \in RunIds, c \in {None, Some("t0")}}
StampedDrafts ==
  {[cart |-> [CartPayload(Some(id), None, None) EXCEPT !.created_at = c],
    line_items |-> lines] :
     id \in CartIds, c \in {None, Some("t0")},
     lines \in {<<>>, <<LinePayload(Some("l1"), "flour", <<AltPayload(Some("a1"), 1)>>)>>}}
NextStamps ==
  \E s \in {"s1"} :
    \/ \E payload \in StampedRuns, now_iso \in Times :
         UpsertAgentRunGet(s, payload, now_iso)
    \/ \E payload \in StampedRuns, now_iso \in Times :
         UpdateAgentRunGet(s, payload.id[1], payload, now_iso)
    \/ AgentRunCommit(s)
    \/ AgentRunRefresh(s)
    \/ \E payload \in StampedDrafts, now_iso \in Times :
         UpsertCartDraftGet(s, payload, now_iso)
    \/ UpsertCartDraftFlush(s)
    \/ ReplaceCartLineItems(s)
    \/ \E payload \in StampedDrafts, now_iso \in Times :
         UpdateCartDraftGet(s, payload.cart.id[1], payload.cart, now_iso)
    \/ UpdateCartDraftCommit(s)
    \/ CartDraftRefresh(s)
    \/ GetCartDraftLineItems(s)
    \/ GetCartDraftAlternatives(s)
    \/ RequestDone(s)
SpecStamps == InitRoutes /\ [][NextStamps]_vars

\* ------------------------------------------------ claims: reserve_stock
\* A session whose reserve_stock call has returned and is not yet committed:
\* `store` still holds the inventory the call found, `txn` what it left.
Returned(s) == pc[s] = "returned" /\ req[s].op = "reserve_stock"

HasQuantity(inv, p) == p \in DOMAIN inv /\ inv[p].quantity # None

\* C1: concurrent reserve_stock(product, q) calls without fallback_quantity
\* against a row that starts at quantity s: at most floor(s/q) return True,
\* and the stored quantity is s - q * (number that returned True), never
\* negative.
C1_AtMostFloorSucceed ==
  (/\ hist.product # None
   /\ hist.series.kind = "uniform"
   /\ hist.series.start # None
   /\ hist.series.start[1].quantity # None)
  => LET p == hist.product[1]
         s == hist.series.start[1].quantity[1]
         q == hist.series.quantity
         n == hist.series.trues
     IN /\ n <= s \div q
        /\ HasQuantity(store.inventory, p)
        /\ store.inventory[p].quantity[1] = s - q * n
        /\ store.inventory[p].quantity[1] >= 0

\* Two calls returned True, a further one was refused, and another request
\* is inside reserve_stock while the last one commits.
C1_Witness ==
  /\ hist.series.kind = "uniform"
  /\ hist.series.start # None
  /\ hist.series.start[1].quantity = Some(2)
  /\ hist.series.quantity = 1
  /\ hist.series.trues = 2
  /\ hist.series.refused
  /\ \E s \in Sessions : pc[s] = "reserve_execute"

\* C2: every stored inventory quantity that is not NULL is >= 0, in the
\* committed store and in the open transaction.
C2_QuantityNeverNegative ==
  \A d \in {store, txn} : \A p \in DOMAIN d.inventory :
    d.inventory[p].quantity # None => d.inventory[p].quantity[1] >= 0

\* A reservation took the last units of a product.
C2_Witness ==
  \E s \in Sessions :
    /\ Returned(s)
    /\ resp[s].value
    /\ txn.inventory[req[s].product_id].quantity = Some(0)
    /\ store.inventory # txn.inventory

\* C5: without fallback_quantity, when the conditional decrement matches no
\* row (no row, NULL quantity, or quantity < requested), reserve_stock
\* returns False as a plain result and leaves the inventory as it was.
C5_InsufficientReturnsFalse ==
  \A s \in Sessions :
    (/\ Returned(s)
     /\ req[s].fallback_quantity = None
     /\ \/ ~HasQuantity(store.inventory, req[s].product_id)
        \/ store.inventory[req[s].product_id].quantity[1] < req[s].quantity)
    => /\ resp[s] = [status |-> "return", value |-> FALSE]
       /\ txn.inventory = store.inventory
       /\ loc[s].executes = 1

\* A call for more than the stock of an existing row was refused.
C5_Witness ==
  \E s \in Sessions :
    /\ Returned(s)
    /\ req[s].fallback_quantity = None
    /\ HasQuantity(store.inventory, req[s].product_id)
    /\ store.inventory[req[s].product_id].quantity[1] < req[s].quantity
    /\ resp[s].value = FALSE

\* C6: with fallback_quantity f, on a product with no row or a NULL quantity,
\* the record is initialised to f and the decrement retried once: the call
\* returns True iff f >= q, and the quantity is f - q on success, f on
\* failure.
C6_FallbackSeedsThenRetries ==
  \A s \in Sessions :
    (/\ Returned(s)
     /\ req[s].fallback_quantity # None
     /\ ~HasQuantity(store.inventory, req[s].product_id))
    => LET f == req[s].fallback_quantity[1]
           q == req[s].quantity
           p == req[s].product_id
       IN /\ resp[s].value = (f >= q)
          /\ HasQuantity(txn.inventory, p)
          /\ txn.inventory[p].quantity[1] = IF f >= q THEN f - q ELSE f
          /\ loc[s].executes = 2

\* A row with a NULL quantity was initialised to 2 and 1 taken from it.
C6_Witness ==
  \E s \in Sessions :
    /\ Returned(s)
    /\ req[s].fallback_quantity = Some(2)
    /\ req[s].quantity = 1
    /\ req[s].product_id \in DOMAIN store.inventory
    /\ store.inventory[req[s].product_id].quantity = None
    /\ resp[s].value
    /\ txn.inventory[req[s].product_id].quantity = Some(1)

\* C7: on a product without a row, reserve_stock(product, q, f) with q <= f
\* creates the row and returns True; the same call made again returns True
\* iff f - q >= q; a row that holds a quantity is never seeded again, so a
\* call against insufficient stock returns False and leaves the quantity.
C7_SecondCallNeverReseeds ==
  \A s \in Sessions :
    (Returned(s) /\ req[s].fallback_quantity # None)
    => LET f == req[s].fallback_quantity[1]
           q == req[s].quantity
           p == req[s].product_id
       IN /\ (p \notin DOMAIN store.inventory /\ q <= f)
             => /\ resp[s].value
                /\ HasQuantity(txn.inventory, p)
                /\ txn.inventory[p].quantity[1] = f - q
          /\ (/\ hist.product = Some(p)
              /\ hist.created = Some([quantity |-> q, fallback_quantity |-> f]))
             => /\ resp[s].value = (f - q >= q)
                /\ txn.inventory[p].quantity[1] = IF f - q >= q THEN f - 2 * q ELSE f - q
          /\ HasQuantity(store.inventory, p)
             => LET v == store.inventory[p].quantity[1]
                IN /\ resp[s].value = (v >= q)
                   /\ txn.inventory[p].quantity[1] = IF v >= q THEN v - q ELSE v

\* The call that created the row was made a second time and refused.
C7_Witness ==
  \E s \in Sessions :
    /\ Returned(s)
    /\ hist.product = Some(req[s].product_id)
    /\ hist.created = Some([quantity |-> 2, fallback_quantity |-> 2])
    /\ req[s].quantity = 2
    /\ req[s].fallback_quantity = Some(2)
    /\ resp[s].value = FALSE
    /\ store.inventory[req[s].product_id].quantity = Some(0)

\* C8: when the stored quantity is not NULL and >= the requested quantity,
\* reserve_stock returns True after one conditional update, the quantity
\* drops by exactly the requested quantity, the fallback branch is not
\* entered and the rows of the other products are unchanged.
C8_SufficientStockDecrements ==
  \A s \in Sessions :
    (/\ Returned(s)
     /\ HasQuantity(store.inventory, req[s].product_id)
     /\ store.inventory[req[s].product_id].quantity[1] >= req[s].quantity)
    => LET p == req[s].product_id IN
       /\ resp[s] = [status |-> "return", value |-> TRUE]
       /\ loc[s].executes = 1
       /\ ~loc[s].seeded
       /\ DOMAIN txn.inventory = DOMAIN store.inventory
       /\ txn.inventory[p].quantity = Some(store.inventory[p].quantity[1] - req[s].quantity)
       /\ \A o \in DOMAIN store.inventory \ {p} : txn.inventory[o] = store.inventory[o]

\* A call with a fallback_quantity took 1 of 2 while the other product has
\* stock of its own.
C8_Witness ==
  \E s \in Sessions :
    /\ Returned(s)
    /\ req[s].fallback_quantity # None
    /\ req[s].quantity = 1
    /\ store.inventory[req[s].product_id].quantity = Some(2) 
    /\ txn.inventory[req[s].product_id].quantity = Some(1)
    /\ \E o \in DOMAIN store.inventory \ {req[s].product_id} :
         store.inventory[o].quantity = Some(2)

\* ---------------------------------------------------- claims: agent runs
\* A PATCH /agent-runs/{id} that found its run and is about to respond.
PatchedRun(s) ==
  pc[s] = "done" /\ req[s].op = "update_agent_run" /\ loc[s].existing # None

\* C9: PATCH /agent-runs/{id} on an existing run overwrites each mutable field
\* the request carries and leaves each one it omits at its stored value;
\* updated_at is the request's or else the current time, the key and
\* created_at stay; the response is the full record as now stored.
C9_PatchOverwritesPresentFieldsOnly ==
  \A s \in Sessions :
    PatchedRun(s) =>
      LET stored == loc[s].existing[1]
          payload == req[s].payload
          id == req[s].agent_run_id
      IN /\ resp[s].status = 200
         /\ resp[s].agentRun.id = id
         /\ \A f \in AgentRunPatchFields :
              resp[s].agentRun.fields[f] =
                IF payload[f] # None THEN payload[f] ELSE stored[f]
         /\ resp[s].agentRun.fields.updated_at =
              IF payload.updated_at \in {None, Some("")}
              THEN Some(loc[s].now_iso) ELSE payload.updated_at
         /\ resp[s].agentRun.fields.created_at = stored.created_at
         /\ id \in DOMAIN store.agent_runs
         /\ store.agent_runs[id] = resp[s].agentRun.fields

\* {state: FAILED} patched onto a run with recipeId r1 in another state.
C9_Witness ==
  \E s \in Sessions :
    /\ PatchedRun(s)
    /\ req[s].payload.state = Some("FAILED")
    /\ req[s].payload.recipe_id = None
    /\ req[s].payload.updated_at = None
    /\ loc[s].existing[1].recipe_id = Some("r1")
    /\ loc[s].existing[1].state = Some("DISCOVER_MERCHANT")
    /\ loc[s].existing[1].updated_at # Some(loc[s].now_iso)
    /\ resp[s].status = 200
    /\ resp[s].agentRun.fields.state = Some("FAILED")
    /\ resp[s].agentRun.fields.recipe_id = Some("r1")

\* C11: the agent-run state has no transition graph: a PATCH that sets
\* state t on an existing run, whatever state the run is in, is answered 200
\* and leaves the run stored, and returned, in state t (FAILED and
\* ORDER_TRACKING included).
C11_AnyStateFromAnyState ==
  \A s \in Sessions :
    (PatchedRun(s) /\ req[s].payload.state # None) =>
       /\ loc[s].existing[1].state \in {Some(x) : x \in AgentRunState}
       /\ req[s].payload.state \in {Some(x) : x \in AgentRunState}
       /\ resp[s].status = 200
       /\ resp[s].agentRun.fields.state = req[s].payload.state
       /\ req[s].agent_run_id \in DOMAIN store.agent_runs
       /\ store.agent_runs[req[s].agent_run_id].state = req[s].payload.state

\* A run in state FAILED patched back to DISCOVER_MERCHANT.
C11_Witness ==
  \E s \in Sessions :
    /\ PatchedRun(s)
    /\ loc[s].existing[1].state = Some("FAILED")
    /\ req[s].payload.state = Some("DISCOVER_MERCHANT")
    /\ resp[s].status = 200
    /\ store.agent_runs[req[s].agent_run_id].state = Some("DISCOVER_MERCHANT")

\* C12: in every reachable state the stored state of every agent run,
\* committed or in an open transaction, is one of the ten enumerated values,
\* never null.
C12_StateAlwaysEnumerated ==
  /\ \A id \in DOMAIN store.agent_runs :
       store.agent_runs[id].state \in {Some(x) : x \in AgentRunState}
  /\ \A id \in DOMAIN txn.agent_runs :
       txn.agent_runs[id].state \in {Some(x) : x \in AgentRunState}
  /\ Cardinality(AgentRunState) = 10

\* A run created by a POST without state and then patched without state.
C12_Witness ==
  \E s \in Sessions :
    /\ PatchedRun(s)
    /\ req[s].payload.state = None
    /\ resp[s].status = 200
    /\ store.agent_runs[req[s].agent_run_id].state = Some("DISCOVER_MERCHANT")

\* C13: the commit of a POST /agent-runs that found no run under its id adds
\* exactly one run and changes nothing else: under the supplied id, or a
\* generated one when none was supplied; with the supplied state, or
\* DISCOVER_MERCHANT; with created_at and updated_at the supplied values, or
\* the current time.
C13_CreateStoresOneRun ==
  [][\A s \in Sessions :
       ( /\ pc[s] = "run_commit"
         /\ req[s].op = "upsert_agent_run"
         /\ loc[s].existing = None
         /\ loc[s].agent_run_id \notin DOMAIN store.agent_runs )
       => LET id == loc[s].agent_run_id
              payload == req[s].payload
          IN /\ pc'[s] = "run_refresh"
             /\ DOMAIN store'.agent_runs = DOMAIN store.agent_runs \cup {id}
             /\ \A k \in DOMAIN store.agent_runs :
                  store'.agent_runs[k] = store.agent_runs[k]
             /\ [store' EXCEPT !.agent_runs = store.agent_runs] = store
             /\ IF payload.id \in {None, Some("")}
                THEN id \in RunUuids ELSE id = payload.id[1]
             /\ store'.agent_runs[id].state =
                  IF payload.state = None THEN Some("DISCOVER_MERCHANT")
                  ELSE payload.state
             /\ store'.agent_runs[id].created_at =
                  IF payload.created_at \in {None, Some("")}
                  THEN Some(loc[s].now_iso) ELSE payload.created_at
             /\ store'.agent_runs[id].updated_at =
                  IF payload.updated_at \in {None, Some("")}
                  THEN Some(loc[s].now_iso) ELSE payload.updated_at]_vars

\* A POST without id and state, with createdAt t0, answered with a generated
\* id, DISCOVER_MERCHANT, createdAt t0 and updatedAt the current time, while
\* another run is stored.
C13_Witness ==
  \E s \in Sessions :
    /\ pc[s] = "done"
    /\ req[s].op = "upsert_agent_run"
    /\ loc[s].existing = None
    /\ req[s].payload.id = None
    /\ req[s].payload.state = None
    /\ req[s].payload.created_at = Some("t0")
    /\ req[s].payload.updated_at = None
    /\ resp[s].status = 200
    /\ resp[s].agentRun.id \in RunUuids
    /\ resp[s].agentRun.fields.state = Some("DISCOVER_MERCHANT")
    /\ resp[s].agentRun.fields.created_at = Some("t0")
    /\ resp[s].agentRun.fields.updated_at = Some(loc[s].now_iso)
    /\ Cardinality(DOMAIN store.agent_runs) = 2

\* --------------------------------------------------- claims: cart drafts
\* An upsert_cart_draft that committed and is about to respond.
UpsertedDraft(s) ==
  pc[s] = "done" /\ req[s].op = "upsert_cart_draft" /\ resp[s].status = 200

\* C3: after any sequence of upsert_cart_draft calls, one at a time, the
\* persisted line items of every draft, each with its persisted
\* alternatives, are exactly those the last successful upsert of that draft
\* supplied; no line item and no alternative is stored besides these; and
\* the response of an upsert lists exactly the draft's persisted line items
\* with their persisted alternatives.
C3_UpsertReplacesChildren ==
  /\ DOMAIN store.cart_drafts = DOMAIN hist.children
  /\ \A c \in DOMAIN store.cart_drafts : Children(store, c) = hist.children[c]
  /\ DOMAIN store.cart_draft_line_items =
       UNION {DOMAIN hist.children[c] : c \in DOMAIN hist.children}
  /\ DOMAIN store.cart_draft_alternatives =
       UNION {UNION {DOMAIN hist.children[c][l].alternatives :
                       l \in DOMAIN hist.children[c]} :
                c \in DOMAIN hist.children}
  /\ \A s \in Sessions :
       UpsertedDraft(s) =>
         /\ resp[s].lineItems = Children(store, loc[s].cart_draft_id)
         /\ resp[s].lineItems = hist.children[loc[s].cart_draft_id]

\* An upsert of a draft that had a line item with an alternative, neither
\* supplied again, answered with a line item that has an alternative, while
\* another draft has line items too.
C3_Witness ==
  \E s \in Sessions :
    /\ UpsertedDraft(s)
    /\ loc[s].existing # None
    /\ loc[s].existing_ids \ DOMAIN resp[s].lineItems # {}
    /\ \E l \in DOMAIN resp[s].lineItems :
         resp[s].lineItems[l].alternatives # EmptyTable
    /\ \E c \in DOMAIN store.cart_drafts :
         c # loc[s].cart_draft_id /\ Children(store, c) # EmptyTable

\* C4: a GET /cart-drafts/{id} that runs while an upsert_cart_draft of the
\* draft is in progress answers with the draft as it was committed at some
\* moment of the GET: parent fields and children of one and the same version.
C4_ReaderSeesOneVersion ==
  \A s \in Sessions :
    (pc[s] = "done" /\ req[s].op = "get_cart_draft" /\ resp[s].status = 200)
      => [cart |-> resp[s].cart, lineItems |-> resp[s].lineItems] \in loc[s].seen

\* C10: a GET or PATCH of an agent-run id or cart-draft id that is not in
\* the store answers 404 at once and changes nothing in the store, and the
\* store is still unchanged when the request ends.
C10_UnknownIdIsNotFound ==
  [][\A s \in Sessions :
       /\ ( /\ pc[s] = "idle"
            /\ pc'[s] # "idle"
            /\ \/ /\ req'[s].op \in {"get_agent_run", "update_agent_run"}
                  /\ req'[s].agent_run_id \notin DOMAIN store.agent_runs
               \/ /\ req'[s].op \in {"get_cart_draft", "update_cart_draft"}
                  /\ req'[s].cart_draft_id \notin DOMAIN store.cart_drafts )
          => /\ pc'[s] = "done"
             /\ resp'[s] = [status |-> 404]
             /\ store' = store
             /\ txn' = txn
       /\ (pc[s] = "done" /\ resp[s].status = 404 /\ pc'[s] # "done")
          => /\ pc'[s] = "idle"
             /\ store' = store
             /\ txn' = txn]_vars

\* A PATCH of an unknown cart-draft id answered while another draft, with
\* line items, and an agent run are stored.
C10_Witness ==
  \E s \in Sessions :
    /\ pc[s] = "done"
    /\ req[s].op = "update_cart_draft"
    /\ req[s].cart_draft_id \notin DOMAIN store.cart_drafts
    /\ resp[s].status = 404
    /\ store.cart_draft_line_items # EmptyTable
    /\ store.agent_runs # EmptyTable

\* C14: an upsert_cart_draft with the id of an existing draft overwrites
\* the parent fields the request carries, keeps every other parent field
\* (created_at too) at its stored value and sets updated_at to the request's
\* or else the current time; what it returns as the parent is what is stored.
C14_UpsertMergesParent ==
  \A s \in Sessions :
    (UpsertedDraft(s) /\ loc[s].existing # None) =>
      LET stored == loc[s].existing[1]
          payload == req[s].payload.cart
          id == loc[s].cart_draft_id
      IN /\ resp[s].cart.id = id
         /\ \A f \in CartDraftPatchFields :
              resp[s].cart.fields[f] =
                IF payload[f] # None THEN payload[f] ELSE stored[f]
         /\ resp[s].cart.fields.updated_at =
              IF payload.updated_at \in {None, Some("")}
              THEN Some(loc[s].now_iso) ELSE payload.updated_at
         /\ resp[s].cart.fields.created_at = stored.created_at
         /\ store.cart_drafts[id] = resp[s].cart.fields

\* A draft with recipeId r1 and updatedAt t0 upserted again without recipeId
\* and updatedAt: recipeId stays r1, updatedAt becomes the current time.
C14_Witness ==
  \E s \in Sessions :
    /\ UpsertedDraft(s)
    /\ loc[s].existing # None
    /\ loc[s].existing[1].recipe_id = Some("r1")
    /\ loc[s].existing[1].updated_at = Some("t0")
    /\ req[s].payload.cart.recipe_id = None
    /\ req[s].payload.cart.updated_at = None
    /\ resp[s].cart.fields.recipe_id = Some("r1")
    /\ resp[s].cart.fields.updated_at = Some(loc[s].now_iso)
    /\ loc[s].now_iso # "t0"

\* An upsert_cart_draft that found no draft under its id and committed.
CreatedDraft(s) == UpsertedDraft(s) /\ loc[s].existing = None

\* C15 as stated: an upsert_cart_draft with no id, or with an id for which no
\* draft exists, creates the draft under a generated identifier, with
\* created_at and updated_at the current time when not supplied.
C15_NewDraftIdGenerated ==
  \A s \in Sessions :
    CreatedDraft(s) =>
      /\ resp[s].cart.id \in CartUuids
      /\ req[s].payload.cart.created_at = None
           => resp[s].cart.fields.created_at = Some(loc[s].now_iso)
      /\ req[s].payload.cart.updated_at = None
           => resp[s].cart.fields.updated_at = Some(loc[s].now_iso)

\* C15, amended: the commit of an upsert_cart_draft that found no draft under
\* its id adds exactly one draft: under the supplied id when one is supplied,
\* under a generated identifier only when none is; with the supplied parent
\* fields, and created_at and updated_at the supplied values or else the
\* current time.  No other draft changes.
C15_NewDraftIdSuppliedOrGenerated ==
  [][\A s \in Sessions :
       ( /\ pc[s] = "cart_replace"
         /\ req[s].op = "upsert_cart_draft"
         /\ loc[s].existing = None
         /\ pc'[s] = "cart_refresh" )
       => LET id == loc[s].cart_draft_id
              payload == req[s].payload.cart
          IN /\ id \notin DOMAIN store.cart_drafts
             /\ DOMAIN store'.cart_drafts = DOMAIN store.cart_drafts \cup {id}
             /\ \A k \in DOMAIN store.cart_drafts :
                  store'.cart_drafts[k] = store.cart_drafts[k]
             /\ IF payload.id \in {None, Some("")}
                THEN id \in CartUuids ELSE id = payload.id[1]
             /\ \A f \in CartDraftPatchFields :
                  store'.cart_drafts[id][f] = payload[f]
             /\ store'.cart_drafts[id].created_at =
                  IF payload.created_at \in {None, Some("")}
                  THEN Some(loc[s].now_iso) ELSE payload.created_at
             /\ store'.cart_drafts[id].updated_at =
                  IF payload.updated_at \in {None, Some("")}
                  THEN Some(loc[s].now_iso) ELSE payload.updated_at]_vars

\* An upsert with the id cart1, unknown to the store, and updatedAt t0 but no
\* createdAt, answered with a draft cart1, createdAt the current time.
C15_Witness ==
  \E s \in Sessions :
    /\ CreatedDraft(s)
    /\ req[s].payload.cart.id = Some("cart1")
    /\ req[s].payload.cart.created_at = None
    /\ req[s].payload.cart.updated_at = Some("t0")
    /\ resp[s].cart.id = "cart1"
    /\ resp[s].cart.fields.created_at = Some(loc[s].now_iso)
    /\ resp[s].cart.fields.updated_at = Some("t0")
    /\ store.cart_drafts["cart1"] = resp[s].cart.fields

\* C16: after any sequence of upsert_cart_draft calls, one at a time, every
\* persisted alternative references a persisted line item and every
\* persisted line item references a persisted draft; and when an upsert has
\* dropped a line item of the draft, no alternative of that line item is
\* persisted any more.
NoOrphans(db) ==
  /\ \A a \in DOMAIN db.cart_draft_alternatives :
       db.cart_draft_alternatives[a].line_item_id \in DOMAIN db.cart_draft_line_items
  /\ \A l \in DOMAIN db.cart_draft_line_items :
       db.cart_draft_line_items[l].cart_draft_id \in DOMAIN db.cart_drafts

C16_NoOrphans ==
  /\ NoOrphans(store)
  /\ \A s \in Sessions :
       UpsertedDraft(s) =>
         \A l \in DOMAIN loc[s].previous :
           l \notin DOMAIN store.cart_draft_line_items
             => /\ GetAlternatives(store, l) = EmptyTable
                /\ \A a \in DOMAIN loc[s].previous[l].alternatives :
                     a \in DOMAIN store.cart_draft_alternatives
                       => store.cart_draft_alternatives[a].line_item_id
                            \in DOMAIN resp[s].lineItems

\* An upsert answered after it dropped two line items that each had an
\* alternative and kept none of them, while the draft keeps a line item and
\* another draft has a line item with an alternative.
C16_Witness ==
  \E s \in Sessions :
    /\ UpsertedDraft(s)
    /\ Cardinality({l \in DOMAIN loc[s].previous :
                      /\ l \notin DOMAIN store.cart_draft_line_items
                      /\ loc[s].previous[l].alternatives # EmptyTable}) = 2
    /\ resp[s].lineItems # EmptyTable
    /\ \E c \in DOMAIN store.cart_drafts :
         /\ c # loc[s].cart_draft_id
         /\ \E l \in DOMAIN Children(store, c) :
              Children(store, c)[l].alternatives # EmptyTable

\* C17: when a statement of a multi-statement write fails in the store (a
\* line item or alternative of an upsert_cart_draft repeats a primary key of
\* the request or takes one of another draft; an INSERT or UPDATE of
\* reserve_stock's seeding fails), the request is answered with the failure
\* alone and none of its writes is committed: the drafts, line items and
\* alternatives, or the inventory, are as the request found them, and the
\* session holds no open transaction.
Repeats(ids) == \E i, j \in DOMAIN ids : i # j /\ ids[i] = ids[j]

UpsertFails(s) ==
  LET db == loc[s].began
      id == loc[s].cart_draft_id
      line_ids == loc[s].line_ids
      slots == SlotSeq(req[s].payload.line_items)
      alt_ids == [n \in DOMAIN slots |-> loc[s].alt_ids[slots[n][1]][slots[n][2]]]
  IN \/ Repeats(line_ids)
     \/ Repeats(alt_ids)
     \/ \E i \in DOMAIN line_ids :
          /\ line_ids[i] \in DOMAIN db.cart_draft_line_items
          /\ db.cart_draft_line_items[line_ids[i]].cart_draft_id # id
     \/ \E n \in DOMAIN alt_ids :
          /\ alt_ids[n] \in DOMAIN db.cart_draft_alternatives
          /\ db.cart_draft_alternatives[alt_ids[n]].line_item_id
               \notin DOMAIN GetLineItems(db, id)

StepAdded(s) == pc[s] = "step_commit" /\ pc'[s] = "step_refresh"

C18_StepLogsAppendOnly ==
  [][/\ \A k \in DOMAIN store.agent_run_step_logs :
          /\ k \in DOMAIN store'.agent_run_step_logs
          /\ store'.agent_run_step_logs[k] = store.agent_run_step_logs[k]
     /\ store'.agent_run_step_logs # store.agent_run_step_logs
          => \E s \in Sessions : StepAdded(s)
     /\ \A s \in Sessions :
          /\ (pc[s] = "step_commit" /\ pc'[s] # "step_commit") =>
               IF loc[s].step_id \in DOMAIN store.agent_run_step_logs
               THEN pc'[s] = "done" /\ resp'[s] = StoreFailure /\ store' = store
               ELSE StepAdded(s)
          /\ StepAdded(s) =>
               /\ store' = [store EXCEPT !.agent_run_step_logs =
                              Insert(@, loc[s].step_id,
                                     [f \in StepLogFields |->
                                        IF f = "started_at"
                                        THEN IF req[s].payload.started_at = None
                                             THEN Some("t1")
                                             ELSE req[s].payload.started_at
                                        ELSE req[s].payload[f]])]
               /\ Cardinality(DOMAIN store'.agent_run_step_logs)
                    = Cardinality(DOMAIN store.agent_run_step_logs) + 1
               /\ IF req[s].payload.id = None
                  THEN loc[s].step_id \in StepUuids
                  ELSE loc[s].step_id = req[s].payload.id[1]
          /\ (pc[s] = "step_refresh" /\ pc'[s] = "done") =>
               /\ resp'[s].status = 200
               /\ resp'[s].stepLog.id = loc[s].step_id
               /\ resp'[s].stepLog.fields = store.agent_run_step_logs[loc[s].step_id]]_vars

\* A step of a run that is not stored was answered 200 and is stored, with
\* two earlier step records, while another agent run and a draft are stored.
C18_Witness ==
  \E s \in Sessions :
    /\ pc[s] = "done"
    /\ req[s].op = "create_agent_run_step"
    /\ resp[s].status = 200
    /\ req[s].payload.agent_run_id \notin DOMAIN store.agent_runs
    /\ store.agent_runs # EmptyTable
    /\ store.cart_drafts # EmptyTable
    /\ loc[s].step_id \in DOMAIN store.agent_run_step_logs
    /\ Cardinality(DOMAIN store.agent_run_step_logs) = 3

\* C19: after an upsert_cart_draft has replaced a draft's children, the
\* draft has one line item per line item of the request and each of these
\* one alternative per alternative of the request, with the request's
\* fields; a line item or alternative that came with an id is stored under
\* that id, one that came without is stored under an id that no line item
\* or alternative had before the replacement.  So a request whose line items
\* and alternatives all carry ids leaves the same children whenever it is
\* repeated, and children without ids change identity on every replacement.
RequestIds(line_items) ==
  [i \in DOMAIN line_items |-> line_items[i].id[1]]

RequestAltIds(line_items) ==
  [i \in DOMAIN line_items |->
     [k \in DOMAIN line_items[i].alternatives |-> line_items[i].alternatives[k].id[1]]]

AllSupplied(line_items) ==
  \A i \in DOMAIN line_items :
    /\ ~Falsy(line_items[i].id)
    /\ \A k \in DOMAIN line_items[i].alternatives :
         ~Falsy(line_items[i].alternatives[k].id)

C19_SuppliedIdsKeptOthersFresh ==
  \A s \in Sessions :
    UpsertedDraft(s) =>
      LET id == loc[s].cart_draft_id
          lines == req[s].payload.line_items
          before == loc[s].began
          ch == Children(store, id)
          LineOf(i, l) ==
            /\ ch[l].fields = NewLineItem(id, lines[i])
            /\ IF Falsy(lines[i].id)
               THEN l \notin DOMAIN before.cart_draft_line_items
               ELSE l = lines[i].id[1]
            /\ Cardinality(DOMAIN ch[l].alternatives) = Len(lines[i].alternatives)
            /\ \A k \in DOMAIN lines[i].alternatives :
                 \E a \in DOMAIN ch[l].alternatives :
                   /\ ch[l].alternatives[a] = NewAlternative(l, lines[i].alternatives[k])
                   /\ IF Falsy(lines[i].alternatives[k].id)
                      THEN a \notin DOMAIN before.cart_draft_alternatives
                      ELSE a = lines[i].alternatives[k].id[1]
      IN /\ Cardinality(DOMAIN ch) = Len(lines)
         /\ \A i \in DOMAIN lines : \E l \in DOMAIN ch : LineOf(i, l)
         /\ AllSupplied(lines) =>
              ch = Supplied(id, lines, RequestIds(lines), RequestAltIds(lines))
         /\ (AllSupplied(lines) /\ loc[s].previous = ch) =>
              /\ before.cart_draft_line_items = store.cart_draft_line_items
              /\ before.cart_draft_alternatives = store.cart_draft_alternatives

\* An upsert that supplied line item l1 with alternative a1 and a line item
\* and alternative without ids was answered after it replaced the children
\* of the same request: l1 and a1 are stored as before, the other line item
\* and its alternative under ids they did not have before.
C19_Witness ==
  \E s \in Sessions :
    /\ UpsertedDraft(s)
    /\ Len(req[s].payload.line_items) = 2
    /\ LET ch == Children(store, loc[s].cart_draft_id)
           old == loc[s].previous
       IN /\ "l1" \in DOMAIN ch /\ "l1" \in DOMAIN old
          /\ ch["l1"] = old["l1"]
          /\ "a1" \in DOMAIN ch["l1"].alternatives
          /\ \E l \in DOMAIN ch, m \in DOMAIN old :
               /\ l # "l1" /\ m # "l1" /\ l # m
               /\ ch[l].fields = old[m].fields
               /\ ch[l].alternatives # EmptyTable
               /\ DOMAIN ch[l].alternatives \cap DOMAIN old[m].alternatives = {}
               /\ Cardinality(DOMAIN old[m].alternatives) = 1

\* C20: the schema of the products table is probed at most once per
\* process; once the cached flag is set it never changes and nothing probes
\* again; and a GET /products answers with inventory_quantity in every
\* product when the flag is true and in none when it is false.
C20_ProbedOnceAndCached ==
  [][/\ hist'.probes <= 1
     /\ PRODUCTS_HAS_INVENTORY_COLUMN # None =>
          /\ PRODUCTS_HAS_INVENTORY_COLUMN' = PRODUCTS_HAS_INVENTORY_COLUMN
          /\ hist'.probes = hist.probes
     /\ \A s \in Sessions :
          (pc'[s] = "done" /\ req'[s].op = "list_products") =>
            /\ PRODUCTS_HAS_INVENTORY_COLUMN' # None
            /\ \A id \in DOMAIN resp'[s].products :
                 "inventory_quantity" \in DOMAIN resp'[s].products[id]
                   <=> PRODUCTS_HAS_INVENTORY_COLUMN' = Some(TRUE)]_vars

\* C21: when two upsert_cart_draft requests on the same existing draft have
\* both completed, however their store operations interleaved, the draft's
\* persisted line items with their alternatives are exactly those one of
\* the two requests supplied, and no alternative is stored whose line item
\* is not.
SuppliedBy(s) ==
  Supplied(loc[s].cart_draft_id, req[s].payload.line_items,
           loc[s].line_ids, loc[s].alt_ids)

C21_ConcurrentUpsertsLeaveOneSet ==
  (/\ \A s \in Sessions :
        /\ pc[s] = "done"
        /\ req[s].op = "upsert_cart_draft"
        /\ loc[s].existing # None
   /\ loc["s1"].cart_draft_id = loc["s2"].cart_draft_id)
  => /\ Children(store, loc["s1"].cart_draft_id) \in {SuppliedBy("s1"), SuppliedBy("s2")}
     /\ NoOrphans(store)

\* C22: concurrent reserve_stock(product, q, fallback_quantity = f) calls
\* with 1 <= q <= f against a product whose inventory row is absent or has a
\* NULL quantity: the record is set to f once, at most floor(f/q) calls
\* return True, and the stored quantity is f - q * (number that returned
\* True).
C22_SeededOnceNoLostDecrement ==
  hist.seeding.kind = "uniform"
  => LET p == hist.product[1]
         q == hist.seeding.quantity
         f == hist.seeding.fallback_quantity
         n == hist.seeding.trues
     IN /\ hist.seeding.seeds = 1
        /\ n <= f \div q
        /\ HasQuantity(store.inventory, p)
        /\ store.inventory[p].quantity[1] = f - q * n

\* Of the calls with quantity 1 and fallback_quantity 2 on a product that
\* had no quantity, two returned True and a further one False, and another
\* request is inside reserve_stock while the last one commits.
C22_Witness ==
  /\ hist.seeding.kind = "uniform"
  /\ hist.seeding.quantity = 1
  /\ hist.seeding.fallback_quantity = 2
  /\ hist.seeding.trues = 2
  /\ hist.seeding.seeds = 1
  /\ hist.seeding.refused
  /\ \E s \in Sessions : pc[s] = "reserve_execute"

PatchedDraft(s) ==
  pc[s] = "done" /\ req[s].op = "update_cart_draft" /\ resp[s].status = 200

\* C23: PATCH /cart-drafts/{id} changes the draft's own fields only: the
\* stored line items and alternatives are the same after the request as
\* before it, and the response lists exactly the draft's line items, each
\* with exactly its alternatives, as they were stored before.
C23_PatchLeavesChildren ==
  \A s \in Sessions :
    PatchedDraft(s) =>
      LET before == loc[s].began
          id == loc[s].cart_draft_id
          lines == {l \in DOMAIN before.cart_draft_line_items :
                      before.cart_draft_line_items[l].cart_draft_id = id}
          alts(l) == {a \in DOMAIN before.cart_draft_alternatives :
                        before.cart_draft_alternatives[a].line_item_id = l}
      IN /\ store.cart_draft_line_items = before.cart_draft_line_items
         /\ store.cart_draft_alternatives = before.cart_draft_alternatives
         /\ DOMAIN resp[s].lineItems = lines
         /\ \A l \in lines :
              /\ resp[s].lineItems[l].fields = before.cart_draft_line_items[l]
              /\ resp[s].lineItems[l].alternatives =
                   [a \in alts(l) |-> before.cart_draft_alternatives[a]]

\* A PATCH of recipeId has answered for a draft that holds two line items,
\* one of them with an alternative, beside another stored draft.
C23_Witness ==
  \E s \in Sessions :
    /\ PatchedDraft(s)
    /\ resp[s].cart.fields.recipe_id = Some("r2")
    /\ Cardinality(DOMAIN resp[s].lineItems) = 2
    /\ \E l \in DOMAIN resp[s].lineItems : resp[s].lineItems[l].alternatives # EmptyTable
    /\ Cardinality(DOMAIN store.cart_drafts) = 2

\* C24: the commit of a POST /agent-runs that found a run under its id adds
\* no run and changes no other run: each mutable field the request carries
\* is overwritten, each one it omits, state included, keeps its stored
\* value (state is not set back to DISCOVER_MERCHANT), and the key and
\* created_at stay; the response is the run as now stored.
C24_UpsertOfStoredRunMerges ==
  [][\A s \in Sessions :
       ( /\ pc[s] = "run_commit"
         /\ req[s].op = "upsert_agent_run"
         /\ loc[s].existing # None )
       => LET id == loc[s].agent_run_id
              payload == req[s].payload
              stored == store.agent_runs[id]
          IN /\ pc'[s] = "run_refresh"
             /\ id = payload.id[1]
             /\ DOMAIN store'.agent_runs = DOMAIN store.agent_runs
             /\ \A k \in DOMAIN store.agent_runs \ {id} :
                  store'.agent_runs[k] = store.agent_runs[k]
             /\ [store' EXCEPT !.agent_runs = store.agent_runs] = store
             /\ \A f \in AgentRunPatchFields :
                  store'.agent_runs[id][f] =
                    IF payload[f] # None THEN payload[f] ELSE stored[f]
             /\ payload.state = None => store'.agent_runs[id].state = stored.state
             /\ store'.agent_runs[id].created_at = stored.created_at]_vars

\* A POST with the id of a stored run in state FAILED with recipeId r1, that
\* carries recipeId r2 and no state, answered with state FAILED and recipeId
\* r2; the run is the only one stored.
C24_Witness ==
  \E s \in Sessions :
    /\ pc[s] = "done"
    /\ req[s].op = "upsert_agent_run"
    /\ loc[s].existing # None
    /\ loc[s].existing[1].state = Some("FAILED")
    /\ loc[s].existing[1].recipe_id = Some("r1")
    /\ req[s].payload.state = None
    /\ req[s].payload.recipe_id = Some("r2")
    /\ resp[s].status = 200
    /\ resp[s].agentRun.fields.state = Some("FAILED")
    /\ resp[s].agentRun.fields.recipe_id = Some("r2")
    /\ store.agent_runs[req[s].payload.id[1]] = resp[s].agentRun.fields
    /\ Cardinality(DOMAIN store.agent_runs) = 1

\* C25: created_at is written once: no step of any sequence of POST and
\* PATCH requests removes a stored agent run or cart draft or changes its
\* created_at, whether or not the request supplies createdAt.
C25_CreatedAtWrittenOnce ==
  [][/\ \A id \in DOMAIN store.agent_runs :
          /\ id \in DOMAIN store'.agent_runs
          /\ store'.agent_runs[id].created_at = store.agent_runs[id].created_at
     /\ \A id \in DOMAIN store.cart_drafts :
          /\ id \in DOMAIN store'.cart_drafts
          /\ store'.cart_drafts[id].created_at = store.cart_drafts[id].created_at]_vars

\* A POST with createdAt t0 on an agent run created at t1 has answered with
\* created_at t1, and a cart draft created at t2 has since been written
\* again by a request that carried createdAt t0.
C25_Witness ==
  \E s \in Sessions :
    /\ pc[s] = "done"
    /\ req[s].op = "upsert_agent_run"
    /\ loc[s].existing # None
    /\ req[s].payload.created_at = Some("t0")
    /\ loc[s].existing[1].created_at = Some("t1")
    /\ resp[s].status = 200
    /\ resp[s].agentRun.fields.created_at = Some("t1")
    /\ store.agent_runs[req[s].payload.id[1]].created_at = Some("t1")
    /\ \E c \in DOMAIN store.cart_drafts :
         /\ store.cart_drafts[c].created_at = Some("t2")
         /\ store.cart_drafts[c].updated_at = Some("t1")

\* C26: an upsert_cart_draft of draft A that is answered 200 leaves every
\* other draft B as it was when the request began: B is stored with the
\* same parent fields, the same line items and the same alternatives.
C26_UpsertLeavesOtherDrafts ==
  \A s \in Sessions :
    UpsertedDraft(s) =>
      LET before == loc[s].began
      IN \A b \in DOMAIN before.cart_drafts \ {loc[s].cart_draft_id} :
           /\ b \in DOMAIN store.cart_drafts
           /\ store.cart_drafts[b] = before.cart_drafts[b]
           /\ Children(store, b) = Children(before, b)
           /\ \A l \in DOMAIN Children(before, b) :
                /\ l \in DOMAIN store.cart_draft_line_items
                /\ store.cart_draft_line_items[l] = before.cart_draft_line_items[l]
                /\ \A a \in DOMAIN before.cart_draft_alternatives :
                     before.cart_draft_alternatives[a].line_item_id = l
                     => /\ a \in DOMAIN store.cart_draft_alternatives
                        /\ store.cart_draft_alternatives[a] =
                             before.cart_draft_alternatives[a]

\* An upsert has replaced the line items of a draft that had some, by
\* others, while another draft is stored with a line item and an
\* alternative.
C26_Witness ==
  \E s \in Sessions :
    /\ UpsertedDraft(s)
    /\ loc[s].existing # None
    /\ loc[s].previous # EmptyTable
    /\ Children(store, loc[s].cart_draft_id) # loc[s].previous
    /\ Children(store, loc[s].cart_draft_id) # EmptyTable
    /\ \E b \in DOMAIN loc[s].began.cart_drafts \ {loc[s].cart_draft_id} :
         \E l \in DOMAIN Children(store, b) :
           Children(store, b)[l].alternatives # EmptyTable

====
